---- MODULE Spec2Model ----
(***************************************************************************)
(* A model of the easycli core: the argv lexer, the grammar parser, the    *)
(* command trie router, the validator and defaults, and the lifecycle of   *)
(* defineCLI(config).run(argv) with its hooks.                             *)
(*                                                                         *)
(* Strings are sequences of one-character strings, so that startsWith,     *)
(* indexOf and slice are computed as the code computes them.  A value of   *)
(* type T | null or T | undefined is the empty sequence (absent) or the    *)
(* one-element sequence <<x>>.                                             *)
(***************************************************************************)
EXTENDS Integers, Sequences, FiniteSets, TLC

VARIABLES
    \* ---- tokenize / parseGrammar, one loop iteration per step
    argv,           \* the argument vector being lexed
    pos,            \* index of the next argv element (0-based count consumed)
    passthrough,    \* lexer.ts: let passthrough
    tokens,         \* lexer.ts: const tokens
    i,              \* part_009: the loop index into tokens (0-based)
    commandPhase,   \* part_009: let commandPhase
    expectValue,    \* part_009: let expectValue (<<>> is null)
    result,         \* part_009: const result: GrammarNode
    ppc,            \* "lex" | "parse" | "done"
    \* ---- the command trie and lookups in it
    router,         \* defineCLI.ts: const router, the trie root
    inserts,        \* number of top-level insertCommand calls made
    query,          \* the path of the last lookup (<<>> before any: see qop)
    qop,            \* "none" | "findCommand" | "findNode"
    found,          \* the last findCommand's result
    foundNode       \* the last findNode's result (<<>> is null)

routerVars == <<router, inserts, query, qop, found, foundNode>>

VARIABLES
    \* ---- defineCLI(config).run(argv)
    config,         \* the CLIConfig's hooks and plugins
    cliArgs,        \* defineCLI.ts: const args
    pc,             \* where run() is: "start", a hook loop, "dispatch",
                    \* "handler", "returned", "rejected", "exited"
    hk,             \* index in allHooks of the hook last called in this loop
    running,        \* the callbacks called and not yet settled
    log,            \* history: the calls and settlements of user callbacks
    error,          \* the first error raised (<<>> when none)
    rejection,      \* the error run()'s promise rejected with (<<>> when none)
    exitCode,       \* the code given to process.exit (<<>> when not called)
    out,            \* what was written to stdout and stderr
    parsed,         \* defineCLI.ts: const parsed (<<>> before)
    route,          \* defineCLI.ts: findCommand's result (<<>> before)
    commandParsed,  \* defineCLI.ts: const commandParsed (<<>> before)
    exec,           \* executeCommand's options and locals (<<>> before)
    listeners,      \* signals: number of installSignalHandlers calls
    cleanupHandlers \* signals: the registered cleanup functions

runVars == <<config, cliArgs, pc, hk, running, log, error, rejection, exitCode, out,
             parsed, route, commandParsed, exec, listeners, cleanupHandlers>>

VARIABLES
    \* ---- executeCommand(options), up to the call of command.run
    xCommand,       \* executor.ts: options.command
    xArgs,          \* executor.ts: options.args
    xFlags,         \* executor.ts: options.flags, the caller's Map
    xpc,            \* where executeCommand is: "start", "defaulted",
                    \* "validated", "thrown", "called" ("idle": not running)
    xFinal,         \* executor.ts: const finalFlags (<<>> before)
    xValidation,    \* executor.ts: const validation (<<>> before)
    xCall           \* the first argument of command.run (<<>> before)

execVars == <<xCommand, xArgs, xFlags, xpc, xFinal, xValidation, xCall>>

VARIABLES
    \* ---- the signal handling of hooks.ts (module state and the process)
    isShuttingDown, \* hooks.ts: let isShuttingDown
    cleanupState,   \* per entry of cleanupHandlers: "idle", "running" (awaited
                    \* by runCleanup), "done" or "threw", and the calls so far
    sigTasks,       \* the listener calls in flight: the signal and "cleaning"
                    \* (inside runCleanup's loop) or "ready" (about to exit)
    signalsSent,    \* signals and uncaught errors delivered so far
    sigExit         \* the code given to process.exit by a listener (<<>> before)

sigVars == <<isShuttingDown, cleanupState, sigTasks, signalsSent, sigExit>>

VARIABLES
    \* ---- the runs of createTestRunner (test-utils run.ts) and the process
    pStdoutWrite,   \* process.stdout.write: "original" or the capture of a run
    pStderrWrite,   \* process.stderr.write: "original" or the capture of a run
    pExit,          \* process.exit: "original" or the capture of a run
    tRuns,          \* per run: where it is, its saved functions and its locals
    terminated      \* the original process.exit was called

testVars == <<pStdoutWrite, pStderrWrite, pExit, tRuns, terminated>>

vars == <<argv, pos, passthrough, tokens, i, commandPhase, expectValue, result, ppc,
          router, inserts, query, qop, found, foundNode,
          config, cliArgs, pc, hk, running, log, error, rejection, exitCode, out,
          parsed, route, commandParsed, exec, listeners, cleanupHandlers,
          xCommand, xArgs, xFlags, xpc, xFinal, xValidation, xCall,
          isShuttingDown, cleanupState, sigTasks, signalsSent, sigExit,
          pStdoutWrite, pStderrWrite, pExit, tRuns, terminated>>

parseVars == <<argv, pos, passthrough, tokens, i, commandPhase, expectValue,
               result, ppc>>

----------------------------------------------------------------------------
\* Bounds of the model.

\* Longest argument vector given to the lexer / parser.
MaxArgv == 3

\* Most entries of the schema buildRouter is given.
MaxInserts == 2

\* Longest argument vector given to run().
MaxRunArgv == 2

----------------------------------------------------------------------------
\* Strings.

Null == <<>>
Some(x) == <<x>>
IsNull(o) == o = <<>>
Get(o) == o[1]

\* s.startsWith(p)
StartsWith(s, p) == Len(s) >= Len(p) /\ SubSeq(s, 1, Len(p)) = p

\* s.indexOf(c): 0-based index of the first occurrence, -1 when there is none
IndexOf(s, c) ==
    IF \E k \in 1..Len(s) : s[k] = c
    THEN (CHOOSE k \in 1..Len(s) : s[k] = c /\ \A j \in 1..(k-1) : s[j] # c) - 1
    ELSE -1

\* s.slice(a, b) and s.slice(a), 0-based, for 0 <= a
Slice(s, a, b) == SubSeq(s, a + 1, b)
SliceFrom(s, a) == SubSeq(s, a + 1, Len(s))

Digits == <<"0", "1", "2", "3", "4", "5", "6", "7", "8", "9">>
IsDigit(c) == \E d \in 1..10 : Digits[d] = c
DigitVal(c) == (CHOOSE d \in 1..10 : Digits[d] = c) - 1

RECURSIVE DecVal(_)
DecVal(s) == IF s = <<>> THEN 0
             ELSE 10 * DecVal(SubSeq(s, 1, Len(s) - 1)) + DigitVal(s[Len(s)])

AllDigits(s) == Len(s) > 0 /\ \A k \in 1..Len(s) : IsDigit(s[k])

\* Values of the flags map: a tagged union, typeof is the tag.
VBool(b) == [t |-> "boolean", b |-> b]
VStr(s) == [t |-> "string", s |-> s]
VNum(n) == [t |-> "number", n |-> n]
VNaN == [t |-> "number", nan |-> TRUE]
VArr(xs) == [t |-> "array", xs |-> xs]
IsArray(v) == v.t = "array"

\* Number(s) on strings over digits, "-", "=" and lower-case letters other
\* than the ones of numeric literals: "" is 0, [-]digits is the decimal
\* value, everything else is NaN.
ToNumber(s) ==
    IF s = <<>> THEN VNum(0)
    ELSE IF AllDigits(s) THEN VNum(DecVal(s))
    ELSE IF s[1] = "-" /\ AllDigits(SliceFrom(s, 1)) THEN VNum(0 - DecVal(SliceFrom(s, 1)))
    ELSE VNaN

----------------------------------------------------------------------------
\* The lexer (lexer.ts).

Token(type, value, raw) == [type |-> type, value |-> value, raw |-> raw]
DASH == <<"-">>
DASHDASH == <<"-", "-">>
EndToken == Token("END", <<>>, <<>>)

\* The tokens of one short-flag cluster: one ShortFlag token per character.
ShortFlagTokens(flags) ==
    [k \in 1..Len(flags) |-> Token("SHORT_FLAG", <<flags[k]>>, <<"-", flags[k]>>)]

\* The tokens of a long flag, with or without an inline value.
LongFlagTokens(arg) ==
    LET eqIndex == IndexOf(arg, "=") IN
    IF eqIndex # -1
    THEN << Token("FLAG", Slice(arg, 2, eqIndex), arg),
            Token("VALUE", SliceFrom(arg, eqIndex + 1), SliceFrom(arg, eqIndex + 1)) >>
    ELSE << Token("FLAG", SliceFrom(arg, 2), arg) >>

\* Fault: the lexer forgets the passthrough test and goes on classifying.
LexArgNoPassthrough(pt, arg) ==
    IF arg = DASHDASH
    THEN [push |-> << Token("DOUBLE_DASH", DASHDASH, DASHDASH) >>, passthrough |-> TRUE]
    ELSE IF StartsWith(arg, DASHDASH)
    THEN [push |-> LongFlagTokens(arg), passthrough |-> pt]
    ELSE IF StartsWith(arg, DASH) /\ Len(arg) > 1
    THEN [push |-> ShortFlagTokens(SliceFrom(arg, 1)), passthrough |-> pt]
    ELSE [push |-> << Token("VALUE", arg, arg) >>, passthrough |-> pt]

\* One iteration of tokenize's loop over argv: the tokens pushed for arg and
\* the passthrough flag afterwards.
LexArg(pt, arg) ==
    IF pt THEN [push |-> << Token("VALUE", arg, arg) >>, passthrough |-> TRUE]
    ELSE IF arg = DASHDASH
    THEN [push |-> << Token("DOUBLE_DASH", DASHDASH, DASHDASH) >>, passthrough |-> TRUE]
    ELSE IF StartsWith(arg, DASHDASH)
    THEN [push |-> LongFlagTokens(arg), passthrough |-> FALSE]
    ELSE IF StartsWith(arg, DASH) /\ Len(arg) > 1
    THEN [push |-> ShortFlagTokens(SliceFrom(arg, 1)), passthrough |-> FALSE]
    ELSE [push |-> << Token("VALUE", arg, arg) >>, passthrough |-> FALSE]

RECURSIVE TokenizeFrom(_, _, _, _)
TokenizeFrom(av, k, pt, toks) ==
    IF k > Len(av) THEN Append(toks, EndToken)
    ELSE LET r == LexArg(pt, av[k]) IN
         TokenizeFrom(av, k + 1, r.passthrough, toks \o r.push)

Tokenize(av) == TokenizeFrom(av, 1, FALSE, <<>>)

----------------------------------------------------------------------------
\* Flag declarations.  A record of ordered entries <<name, def>>; a FlagDef
\* is [type, default (<<>> or <<v>>), alias ("" is <<>>), required, array].

FlagDef(type, default, alias, required, array) ==
    [type |-> type, default |-> default, alias |-> alias,
     required |-> required, array |-> array]

\* flagDefs[name]: <<>> when the record has no such key
Lookup(entries, name) ==
    IF \E k \in 1..Len(entries) : entries[k][1] = name
    THEN Some(entries[CHOOSE k \in 1..Len(entries) : entries[k][1] = name][2])
    ELSE Null

Keys(entries) == [k \in 1..Len(entries) |-> entries[k][1]]

\* Map.prototype.set on a map held as a function
MapSet(m, name, v) ==
    [x \in (DOMAIN m) \cup {name} |-> IF x = name THEN v ELSE m[x]]
MapHas(m, name) == name \in DOMAIN m
EmptyMap == << >>

----------------------------------------------------------------------------
\* The grammar parser (part_009).

CoerceValue(value, type) ==
    CASE type = "boolean" -> VBool(value = <<"t", "r", "u", "e">> \/ value = <<"1">>)
      [] type = "number" -> ToNumber(value)
      [] OTHER -> VStr(value)

\* Fault: a second value for a flag not declared array makes a list.
SetFlagValuePromotes(flags, name, value, isArray) ==
    IF MapHas(flags, name) /\ IsArray(flags[name])
    THEN MapSet(flags, name, VArr(Append(flags[name].xs, value)))
    ELSE IF MapHas(flags, name)
    THEN MapSet(flags, name, VArr(<<flags[name], value>>))
    ELSE IF isArray THEN MapSet(flags, name, VArr(<<value>>))
    ELSE MapSet(flags, name, value)

\* Fault: every flag is stored as if it were not an array flag.
SetFlagValueLastWins(flags, name, value, isArray) == MapSet(flags, name, value)

SetFlagValue(flags, name, value, isArray) ==
    IF ~isArray THEN MapSet(flags, name, value)
    ELSE IF MapHas(flags, name) /\ IsArray(flags[name])
    THEN MapSet(flags, name, VArr(Append(flags[name].xs, value)))
    ELSE IF MapHas(flags, name)
    THEN MapSet(flags, name, VArr(<<flags[name], value>>))
    ELSE MapSet(flags, name, VArr(<<value>>))

GrammarInit ==
    [commands |-> <<>>, flags |-> EmptyMap, args |-> <<>>,
     commandPhase |-> TRUE, expectValue |-> Null]

\* Fault: a declared boolean flag awaits a value as the other flags do.
OnFlagBooleanTakesValue(st, flagName, flagDefs) ==
    LET def == Lookup(flagDefs, flagName) IN
    IF ~IsNull(def)
    THEN [st EXCEPT !.expectValue = Some(flagName), !.commandPhase = FALSE]
    ELSE [st EXCEPT !.flags = MapSet(st.flags, flagName, VBool(TRUE)),
                    !.commandPhase = FALSE]

\* Fault: a flag that is not declared is dropped.
OnFlagStrict(st, flagName, flagDefs) ==
    LET def == Lookup(flagDefs, flagName) IN
    IF ~IsNull(def) /\ Get(def).type = "boolean"
    THEN [st EXCEPT !.flags = SetFlagValue(st.flags, flagName, VBool(TRUE), Get(def).array),
                    !.commandPhase = FALSE]
    ELSE IF ~IsNull(def)
    THEN [st EXCEPT !.expectValue = Some(flagName), !.commandPhase = FALSE]
    ELSE [st EXCEPT !.commandPhase = FALSE]

\* A Flag or ShortFlag token whose canonical name is flagName.
OnFlag(st, flagName, flagDefs) ==
    LET def == Lookup(flagDefs, flagName) IN
    IF ~IsNull(def) /\ Get(def).type = "boolean"
    THEN [st EXCEPT !.flags = SetFlagValue(st.flags, flagName, VBool(TRUE), Get(def).array),
                    !.commandPhase = FALSE]
    ELSE IF ~IsNull(def)
    THEN [st EXCEPT !.expectValue = Some(flagName), !.commandPhase = FALSE]
    ELSE [st EXCEPT !.flags = MapSet(st.flags, flagName, VBool(TRUE)),
                    !.commandPhase = FALSE]

\* The pending flag takes this token as its value.
OnExpected(st, token, flagDefs) ==
    LET name == Get(st.expectValue)
        def == Lookup(flagDefs, name) IN
    IF ~IsNull(def)
    THEN [st EXCEPT !.flags = SetFlagValue(st.flags, name,
                                 CoerceValue(token.value, Get(def).type), Get(def).array),
                    !.expectValue = Null]
    ELSE [st EXCEPT !.expectValue = Null]

\* Fault: only the first value of the command phase is a command.
OnValueOneCommand(st, token) ==
    IF st.commandPhase /\ st.commands = <<>>
    THEN [st EXCEPT !.commands = Append(st.commands, token.value)]
    ELSE [st EXCEPT !.args = Append(st.args, token.value)]

OnValue(st, token) ==
    IF st.commandPhase
    THEN [st EXCEPT !.commands = Append(st.commands, token.value)]
    ELSE [st EXCEPT !.args = Append(st.args, token.value)]

\* shortToLong.get(c) ?? c, with shortToLong a map held as a function
ResolveShort(shortToLong, c) ==
    IF MapHas(shortToLong, c) THEN shortToLong[c] ELSE c

\* One iteration of parseGrammar's loop on a token that is not End.
GrammarStep(st, token, flagDefs, shortToLong) ==
    IF token.type = "DOUBLE_DASH" THEN [st EXCEPT !.commandPhase = FALSE]
    ELSE IF ~IsNull(st.expectValue) THEN OnExpected(st, token, flagDefs)
    ELSE IF token.type = "FLAG" THEN OnFlag(st, token.value, flagDefs)
    ELSE IF token.type = "SHORT_FLAG"
    THEN OnFlag(st, ResolveShort(shortToLong, token.value), flagDefs)
    ELSE IF token.type = "VALUE" THEN OnValue(st, token)
    ELSE st

RECURSIVE ParseFrom(_, _, _, _, _)
ParseFrom(toks, k, st, flagDefs, shortToLong) ==
    IF k > Len(toks) \/ toks[k].type = "END" THEN st
    ELSE ParseFrom(toks, k + 1, GrammarStep(st, toks[k], flagDefs, shortToLong),
                   flagDefs, shortToLong)

GrammarNode(st) == [commands |-> st.commands, flags |-> st.flags, args |-> st.args]

ParseGrammar(toks, flagDefs, shortToLong) ==
    GrammarNode(ParseFrom(toks, 1, GrammarInit, flagDefs, shortToLong))

\* argv.ts
ParseArgv(av, flagDefs, shortToLong) ==
    ParseGrammar(Tokenize(av), flagDefs, shortToLong)

\* defineCLI.ts: buildShortToLongMap.  Later entries overwrite earlier ones.
RECURSIVE ShortToLongFrom(_, _, _)
ShortToLongFrom(flags, k, map) ==
    IF k > Len(flags) THEN map
    ELSE ShortToLongFrom(flags, k + 1,
            IF flags[k][2].alias # <<>>
            THEN MapSet(map, flags[k][2].alias, flags[k][1]) ELSE map)

BuildShortToLongMap(flags) == ShortToLongFrom(flags, 1, EmptyMap)

----------------------------------------------------------------------------
\* The lexer and the parser as loops: one iteration per step, on argument
\* vectors drawn from a pool, against the flag declarations of a command in
\* the style of the repository's examples.

sForce == <<"f", "o", "r", "c", "e">>
sReg == <<"r", "e", "g">>
sNum == <<"n", "u", "m">>
sTag == <<"t", "a", "g">>
sRegion == <<"r", "e", "g", "i", "o", "n">>
sFile == <<"f", "i", "l", "e">>
sDeploy == <<"d", "e", "p", "l", "o", "y">>
sProd == <<"p", "r", "o", "d">>
sUsEast1 == <<"u", "s", "-", "e", "a", "s", "t", "-", "1">>
sExtra == <<"e", "x", "t", "r", "a">>
sArg == <<"a", "r", "g">>
sATs == <<"a", ".", "t", "s">>
sBTs == <<"b", ".", "t", "s">>

ParseFlagDefs ==
    << <<sForce, FlagDef("boolean", Null, <<"f">>, FALSE, FALSE)>>,
       <<sReg, FlagDef("string", Null, <<"r">>, FALSE, FALSE)>>,
       <<sNum, FlagDef("number", Null, <<>>, FALSE, FALSE)>>,
       <<sTag, FlagDef("string", Null, <<"t">>, FALSE, TRUE)>>,
       <<sRegion, FlagDef("string", Null, <<>>, FALSE, FALSE)>>,
       <<sFile, FlagDef("string", Null, <<>>, FALSE, TRUE)>> >>

ParsePool ==
    { DASHDASH, DASH, <<"a">>, <<"d", "b">>, <<"7">>,
      DASHDASH \o sForce, DASHDASH \o sReg, DASHDASH \o sReg \o <<"=", "a">>,
      DASHDASH \o sNum, DASHDASH \o sTag, <<"-", "f", "r">>, <<"-", "t">>,
      <<"-", "-", "x">>, <<"-", "z">> }

\* The argument vectors of the documented examples.
DeployExample ==
    << sDeploy, sProd, DASHDASH \o sForce, DASHDASH \o sRegion, sUsEast1,
       DASHDASH, sExtra, sArg >>

FileExample == << DASHDASH \o sFile, sATs, DASHDASH \o sFile, sBTs >>

\* --force=false --force false
sFalse == <<"f", "a", "l", "s", "e">>
ForceExample == << DASHDASH \o sForce \o <<"=">> \o sFalse, DASHDASH \o sForce, sFalse >>

ExampleArgvs == { DeployExample, FileExample, ForceExample }

\* All sequences over S of length at most n.
SeqsUpTo(S, n) == UNION { [1..k -> S] : k \in 0..n }

ParseInit ==
    /\ argv \in SeqsUpTo(ParsePool, MaxArgv) \cup ExampleArgvs
    /\ pos = 0
    /\ passthrough = FALSE
    /\ tokens = <<>>
    /\ i = 0
    /\ commandPhase = TRUE
    /\ expectValue = Null
    /\ result = [commands |-> <<>>, flags |-> EmptyMap, args |-> <<>>]
    /\ ppc = "lex"

\* lexer.ts: one iteration of `for (const arg of argv)`
LexStep ==
    /\ ppc = "lex"
    /\ pos < Len(argv)
    /\ LET r == LexArg(passthrough, argv[pos + 1]) IN
        /\ tokens' = tokens \o r.push
        /\ passthrough' = r.passthrough
    /\ pos' = pos + 1
    /\ UNCHANGED <<argv, i, commandPhase, expectValue, result, ppc>>
    /\ UNCHANGED <<routerVars, runVars, execVars, sigVars, testVars>>

\* lexer.ts: the End token after the loop; parseArgv hands the tokens on
LexEnd ==
    /\ ppc = "lex"
    /\ pos = Len(argv)
    /\ tokens' = Append(tokens, EndToken)
    /\ ppc' = "parse"
    /\ UNCHANGED <<argv, pos, passthrough, i, commandPhase, expectValue, result>>
    /\ UNCHANGED <<routerVars, runVars, execVars, sigVars, testVars>>

\* part_009: one iteration of the loop over tokens
ParseStep ==
    /\ ppc = "parse"
    /\ i < Len(tokens)
    /\ tokens[i + 1].type # "END"
    /\ LET st == [commands |-> result.commands, flags |-> result.flags,
                  args |-> result.args, commandPhase |-> commandPhase,
                  expectValue |-> expectValue]
           nx == GrammarStep(st, tokens[i + 1], ParseFlagDefs,
                             BuildShortToLongMap(ParseFlagDefs)) IN
        /\ result' = GrammarNode(nx)
        /\ commandPhase' = nx.commandPhase
        /\ expectValue' = nx.expectValue
    /\ i' = i + 1
    /\ UNCHANGED <<argv, pos, passthrough, tokens, ppc>>
    /\ UNCHANGED <<routerVars, runVars, execVars, sigVars, testVars>>

\* part_009: the loop breaks at the End token and the result is returned
ParseEnd ==
    /\ ppc = "parse"
    /\ (i >= Len(tokens) \/ tokens[i + 1].type = "END")
    /\ ppc' = "done"
    /\ UNCHANGED <<argv, pos, passthrough, tokens, i, commandPhase, expectValue, result>>
    /\ UNCHANGED <<routerVars, runVars, execVars, sigVars, testVars>>

ParseNext == LexStep \/ LexEnd \/ ParseStep \/ ParseEnd


\* The stepwise loops and the functions compute the same thing.
ParseLoopAgreesWithFunction ==
    /\ ppc # "lex" => tokens = Tokenize(argv)
    /\ ppc = "done" =>
         result = ParseArgv(argv, ParseFlagDefs, BuildShortToLongMap(ParseFlagDefs))

----------------------------------------------------------------------------
\* Claims about the lexer and the parser.

\* Index of the first element of a sequence satisfying a test, 0 if none.
FirstDashDashArg(av) ==
    IF \E k \in 1..Len(av) : av[k] = DASHDASH
    THEN CHOOSE k \in 1..Len(av) : av[k] = DASHDASH /\ \A j \in 1..(k-1) : av[j] # DASHDASH
    ELSE 0

FirstDoubleDashToken(toks) ==
    IF \E k \in 1..Len(toks) : toks[k].type = "DOUBLE_DASH"
    THEN CHOOSE k \in 1..Len(toks) :
            /\ toks[k].type = "DOUBLE_DASH"
            /\ \A j \in 1..(k-1) : toks[j].type # "DOUBLE_DASH"
    ELSE 0

\* C10: once tokenize has run, every argv element after the first "--" has
\* given exactly one Value token, value and raw the element verbatim, in
\* order, right after the single DoubleDash token and before End.
C10_PassthroughVerbatim ==
    (ppc # "lex" /\ FirstDashDashArg(argv) > 0) =>
        LET a == FirstDashDashArg(argv)
            k == FirstDoubleDashToken(tokens) IN
        /\ k > 0
        /\ Cardinality({j \in 1..Len(tokens) : tokens[j].type = "DOUBLE_DASH"}) = 1
        /\ Len(tokens) = k + (Len(argv) - a) + 1
        /\ \A j \in 1..(Len(argv) - a) :
              tokens[k + j] = Token("VALUE", argv[a + j], argv[a + j])
        /\ tokens[Len(tokens)] = EndToken

\* C10 witness: a "--" followed by a dash-led element and by another "--".
C10_Witness ==
    /\ ppc = "done"
    /\ \E a, b, c \in 1..Len(argv) :
          /\ a = FirstDashDashArg(argv) /\ a < b /\ a < c /\ b # c
          /\ StartsWith(argv[b], DASH) /\ argv[b] # DASHDASH
          /\ argv[c] = DASHDASH

\* C9: when parseGrammar returns, the values of the Value tokens that follow
\* the DoubleDash token are the tail of args, none of them a command or a
\* flag value.
C9_ValuesAfterDoubleDashAreArgs ==
    (ppc = "done" /\ FirstDoubleDashToken(tokens) > 0) =>
        LET k == FirstDoubleDashToken(tokens)
            n == Len(tokens) - 1 - k
            m == Len(result.args) IN
        /\ m >= n
        /\ \A j \in 1..n : result.args[m - n + j] = tokens[k + j].value

----------------------------------------------------------------------------
\* The command trie router (grammar.ts lines 101-195, router.ts).
\*
\* A trie is a function from the literal path of each node (the root is
\* <<>>) to the node: [command (<<>> or <<def>>), aliases (alias -> segment)].
\* The children of node p are the nodes p \o <<s>>.  A CommandDef is
\* [id, alias, commands, ...]: alias is the array form of the declaration (a
\* string alias s is <<s>>, no alias or "" is <<>>), commands the ordered
\* entries <<name, def>>, id the identity of the definition object.

EmptyNode == [command |-> Null, aliases |-> EmptyMap]

CreateTrie == [p \in {<<>>} |-> EmptyNode]

HasChild(root, node, segment) == Append(node, segment) \in DOMAIN root

\* Fault: the lookup ignores the alias table.
ResolveLiteral(root, node, segment) == segment

\* node.aliases.get(segment) ?? segment
Resolve(root, node, segment) ==
    IF MapHas(root[node].aliases, segment) THEN root[node].aliases[segment]
    ELSE segment

RECURSIVE FindNodeFrom(_, _, _, _)
FindNodeFrom(root, path, k, node) ==
    IF k > Len(path) THEN node
    ELSE IF IsNull(node) THEN Null
    ELSE LET resolved == Resolve(root, Get(node), path[k]) IN
         FindNodeFrom(root, path, k + 1,
            IF HasChild(root, Get(node), resolved)
            THEN Some(Append(Get(node), resolved)) ELSE Null)

\* findNode: <<>> (null) or <<p>>, p the literal path of the node reached
FindNode(root, path) == FindNodeFrom(root, path, 1, Some(<<>>))

\* Fault: the walk keeps the first definition it meets, not the deepest.
RECURSIVE FindCommandFromFirst(_, _, _, _, _, _)
FindCommandFromFirst(root, path, k, node, lastCommand, lastMatchIndex) ==
    IF k >= Len(path) \/ path[k + 1] = <<>> \/ ~IsNull(lastCommand)
    THEN [command |-> lastCommand, lastMatchIndex |-> lastMatchIndex]
    ELSE LET resolved == Resolve(root, node, path[k + 1])
             child == Append(node, resolved) IN
         IF ~HasChild(root, node, resolved)
         THEN [command |-> lastCommand, lastMatchIndex |-> lastMatchIndex]
         ELSE FindCommandFromFirst(root, path, k + 1, child, root[child].command,
                                   IF IsNull(root[child].command) THEN lastMatchIndex
                                   ELSE k + 1)

\* The loop of findCommand from index k (0-based) on.
RECURSIVE FindCommandFrom(_, _, _, _, _, _)
FindCommandFrom(root, path, k, node, lastCommand, lastMatchIndex) ==
    IF k >= Len(path) \/ path[k + 1] = <<>>
    THEN [command |-> lastCommand, lastMatchIndex |-> lastMatchIndex]
    ELSE LET resolved == Resolve(root, node, path[k + 1])
             child == Append(node, resolved) IN
         IF ~HasChild(root, node, resolved)
         THEN [command |-> lastCommand, lastMatchIndex |-> lastMatchIndex]
         ELSE IF ~IsNull(root[child].command)
         THEN FindCommandFrom(root, path, k + 1, child, root[child].command, k + 1)
         ELSE FindCommandFrom(root, path, k + 1, child, lastCommand, lastMatchIndex)

\* Fault: remaining starts one segment late.
FindCommandDropsSegment(root, path) ==
    LET r == FindCommandFrom(root, path, 0, <<>>, Null, 0) IN
    [command |-> r.command,
     matchedPath |-> Slice(path, 0, r.lastMatchIndex),
     remaining |-> SliceFrom(path, r.lastMatchIndex + 1)]

\* Fault: a path that is not matched to its end matches nothing.
FindCommandExact(root, path) ==
    LET r == FindCommandFrom(root, path, 0, <<>>, Null, 0) IN
    IF r.lastMatchIndex = Len(path)
    THEN [command |-> r.command, matchedPath |-> path, remaining |-> <<>>]
    ELSE [command |-> Null, matchedPath |-> <<>>, remaining |-> path]

FindCommand(root, path) ==
    LET r == FindCommandFrom(root, path, 0, <<>>, Null, 0) IN
    [command |-> r.command,
     matchedPath |-> Slice(path, 0, r.lastMatchIndex),
     remaining |-> SliceFrom(path, r.lastMatchIndex)]

\* insertCommand's walk: the nodes along path, created where missing.
Prefixes(path) == { SubSeq(path, 1, k) : k \in 0..Len(path) }

WalkCreate(root, path) ==
    [p \in (DOMAIN root) \cup Prefixes(path) |->
        IF p \in DOMAIN root THEN root[p] ELSE EmptyNode]

RECURSIVE SetAliases(_, _, _, _)
SetAliases(aliases, list, k, lastSegment) ==
    IF k > Len(list) THEN aliases
    ELSE SetAliases(MapSet(aliases, list[k], lastSegment), list, k + 1, lastSegment)

\* insertCommand's alias registration, on the node findNode gives for the
\* parent path.
RegisterAliases(root, path, command) ==
    IF command.alias = <<>> THEN root
    ELSE LET parent == IF Len(path) > 1
                       THEN FindNode(root, SubSeq(path, 1, Len(path) - 1))
                       ELSE Some(<<>>) IN
         IF IsNull(parent) \/ Len(path) = 0 \/ path[Len(path)] = <<>> THEN root
         ELSE [root EXCEPT ![Get(parent)].aliases =
                  SetAliases(@, command.alias, 1, path[Len(path)])]

RECURSIVE InsertCommand(_, _, _)
RECURSIVE InsertSubCommands(_, _, _, _)
InsertSubCommands(root, path, entries, k) ==
    IF k > Len(entries) THEN root
    ELSE InsertSubCommands(
            InsertCommand(root, Append(path, entries[k][1]), entries[k][2]),
            path, entries, k + 1)

InsertCommand(root, path, command) ==
    LET walked == WalkCreate(root, path)
        stored == [walked EXCEPT ![path].command = Some(command)]
        aliased == RegisterAliases(stored, path, command) IN
    InsertSubCommands(aliased, path, command.commands, 1)

\* buildRouter: one insertCommand per entry of the schema, in order.
BuildRouter(commands) == InsertSubCommands(CreateTrie, <<>>, commands, 1)

----------------------------------------------------------------------------
\* The router as a state machine: buildRouter's loop, one insertCommand
\* call per entry of the schema (an object: no name twice), and lookups on
\* the trie built so far.

sA == <<"a">>
sB == <<"b">>
sK == <<"k">>
sEmpty == <<>>

\* A CommandDef: flags and args are the declared schemas (ordered entries,
\* <<>> when absent), run tells whether a handler is declared.
CommandDef(id, alias, commands, flags, args, run) ==
    [id |-> id, alias |-> alias, commands |-> commands,
     flags |-> flags, args |-> args, run |-> run]

Cmd(id, alias, commands) == CommandDef(id, alias, commands, <<>>, <<>>, TRUE)

RouterCmds ==
    { Cmd(1, <<>>, <<>>),
      Cmd(2, <<sK>>, <<>>),
      Cmd(3, <<sK>>, <<>>),
      Cmd(4, <<sB>>, <<>>),
      Cmd(5, <<sEmpty>>, <<>>),
      Cmd(6, <<>>, << <<sB, Cmd(7, <<sK>>, <<>>)>> >>) }

RouterNames == { sA, sB, sK, sEmpty }

QueryPaths ==
    { <<>>, <<sA>>, <<sB>>, <<sK>>, <<sEmpty>>, <<sA, sB>>, <<sA, sK>>,
      <<sK, sB>>, <<sA, sB, sK>>, <<sA, sEmpty, sB>>, <<sEmpty, sB>> }

Declared(root, p) == p \in DOMAIN root /\ ~IsNull(root[p].command)

RouterInit ==
    /\ router = CreateTrie
    /\ inserts = 0
    /\ query = <<>>
    /\ qop = "none"
    /\ found = [command |-> Null, matchedPath |-> <<>>, remaining |-> <<>>]
    /\ foundNode = Null

\* buildRouter line 192: insertCommand(root, [name], def) for the next entry
DoInsertCommand ==
    /\ inserts < MaxInserts
    /\ \E name \in RouterNames, command \in RouterCmds :
        /\ ~Declared(router, <<name>>)
        /\ router' = InsertCommand(router, <<name>>, command)
    /\ inserts' = inserts + 1
    /\ query' = <<>>
    /\ qop' = "none"
    /\ found' = [command |-> Null, matchedPath |-> <<>>, remaining |-> <<>>]
    /\ foundNode' = Null
    /\ UNCHANGED <<parseVars, runVars, execVars, sigVars, testVars>>

DoFindCommand ==
    /\ \E path \in QueryPaths :
        /\ query' = path
        /\ found' = FindCommand(router, path)
    /\ qop' = "findCommand"
    /\ foundNode' = Null
    /\ UNCHANGED <<router, inserts>>
    /\ UNCHANGED <<parseVars, runVars, execVars, sigVars, testVars>>

DoFindNode ==
    /\ \E path \in QueryPaths :
        /\ query' = path
        /\ foundNode' = FindNode(router, path)
    /\ qop' = "findNode"
    /\ found' = [command |-> Null, matchedPath |-> <<>>, remaining |-> <<>>]
    /\ UNCHANGED <<router, inserts>>
    /\ UNCHANGED <<parseVars, runVars, execVars, sigVars, testVars>>

RouterNext == DoInsertCommand \/ DoFindCommand \/ DoFindNode

----------------------------------------------------------------------------
\* Properties of the router.

\* The prefix of the query of length d.
QueryPrefix(d) == SubSeq(query, 1, d)

\* The lengths of the prefixes of the query that lead to a node, by findNode.
LeadsToNode(d) == ~IsNull(FindNode(router, QueryPrefix(d)))

\* The node the prefix of length d leads to carries a definition.
CarriesDefinition(d) ==
    LeadsToNode(d) /\ ~IsNull(router[Get(FindNode(router, QueryPrefix(d)))].command)

Deepest(S) == CHOOSE d \in S : \A e \in S : e <= d

\* What findCommand must return when its walk visits the nodes of the
\* prefixes of the lengths 1..depth.
DeepestDefinition(depth) ==
    LET carriers == { d \in 1..depth : CarriesDefinition(d) } IN
    IF carriers = {}
    THEN [command |-> Null, matchedPath |-> <<>>, remaining |-> query]
    ELSE [command |-> router[Get(FindNode(router, QueryPrefix(Deepest(carriers))))].command,
          matchedPath |-> QueryPrefix(Deepest(carriers)),
          remaining |-> SubSeq(query, Deepest(carriers) + 1, Len(query))]

\* C6 as stated: findCommand walks to the first segment with no matching
\* child and returns the definition of the deepest node visited that carries
\* one, null if and only if none does.
C6_StopsAtFirstUnmatchedSegment ==
    qop = "findCommand" =>
        found = DeepestDefinition(Deepest({ d \in 0..Len(query) : LeadsToNode(d) }))

\* C6 amended: findCommand walks to the first segment that is the empty
\* string or has no matching child, and returns the definition of the deepest
\* node visited that carries one, null if and only if none does.
C6_StopsAtEmptyOrUnmatchedSegment ==
    qop = "findCommand" =>
        LET walked == { d \in 0..Len(query) :
                          /\ LeadsToNode(d)
                          /\ \A k \in 1..d : query[k] # <<>> } IN
        /\ found = DeepestDefinition(Deepest(walked))
        /\ IsNull(found.command) <=> \A d \in 1..Deepest(walked) : ~CarriesDefinition(d)

\* C6 witness: a nested definition found with a segment left over.
C6_Witness ==
    /\ qop = "findCommand"
    /\ query = <<sA, sB, sK>>
    /\ ~IsNull(found.command)
    /\ found.matchedPath = <<sA, sB>>
    /\ found.remaining = <<sK>>

\* C7: the matched path followed by the remaining segments is the path as
\* it was given to findCommand.
C7_MatchedPlusRemainingIsPath ==
    qop = "findCommand" =>
        /\ found.matchedPath \o found.remaining = query
        /\ Len(found.matchedPath) <= Len(query)
        /\ found.matchedPath = SubSeq(query, 1, Len(found.matchedPath))

\* C7 witness: a lookup through an alias that leaves a segment unmatched.
C7_Witness ==
    /\ qop = "findCommand"
    /\ query = <<sK, sB>>
    /\ found.matchedPath = <<sK>>
    /\ found.remaining = <<sB>>
    /\ <<sK>> \notin DOMAIN router

\* The declared commands below the node p, as the pairs <<name, def>>.
DeclaredChildren(p) ==
    { <<q[Len(q)], Get(router[q].command)>> :
        q \in { r \in DOMAIN router : /\ Len(r) = Len(p) + 1
                                      /\ SubSeq(r, 1, Len(p)) = p
                                      /\ ~IsNull(router[r].command) } }

Range(seq) == { seq[k] : k \in 1..Len(seq) }

\* The lookup in query went through an alias of the command c declared with
\* the name n: the path of its parent, then the alias.
ThroughAliasOf(p, n, c) ==
    /\ Declared(router, p) \/ p = <<>>
    /\ \E al \in Range(c.alias) : query = Append(p, al)

\* The lookup through the alias gave what the lookup through the name gives.
SameAsLiteral(p, n) ==
    /\ qop = "findNode" => foundNode = FindNode(router, Append(p, n))
    /\ qop = "findCommand" => found.command = FindCommand(router, Append(p, n)).command

\* C8 as stated: a lookup through an alias of a declared command gives the
\* node, and the definition, that the lookup through its name gives.
C8_AliasResolvesAsName ==
    qop \in {"findNode", "findCommand"} =>
        \A p \in DOMAIN router : \A e \in DeclaredChildren(p) :
            ThroughAliasOf(p, e[1], e[2]) => SameAsLiteral(p, e[1])

\* No name and no alias is the empty string, and no alias of a command is
\* the name or an alias of another command of the same parent.
ConflictFree ==
    \A p \in DOMAIN router : \A e \in DeclaredChildren(p) :
        /\ e[1] # <<>>
        /\ <<>> \notin Range(e[2].alias)
        /\ \A f \in DeclaredChildren(p) :
              f # e => Range(e[2].alias) \cap ({f[1]} \cup Range(f[2].alias)) = {}

\* C8 amended: in a schema with no empty name or alias, and no alias that
\* is the name or an alias of a sibling, a lookup through an alias of a
\* declared command gives the node, and the definition, that the lookup
\* through its name gives.
C8_AliasResolvesAsNameNoConflict ==
    (qop \in {"findNode", "findCommand"} /\ ConflictFree) =>
        \A p \in DOMAIN router : \A e \in DeclaredChildren(p) :
            ThroughAliasOf(p, e[1], e[2]) =>
                /\ SameAsLiteral(p, e[1])
                /\ qop = "findNode" => foundNode = Some(Append(p, e[1]))
                /\ qop = "findCommand" => found.command = Some(e[2])

\* C8 witness: the nested command b of a, looked up through its alias k.
C8_Witness ==
    /\ qop = "findNode"
    /\ ConflictFree
    /\ query = <<sA, sK>>
    /\ foundNode = Some(<<sA, sB>>)
    /\ inserts = 2



----------------------------------------------------------------------------
\* The schema normalizer (schema.ts).  A flag declaration is the shorthand
\* [short |-> type] or a FlagDef; an argument declaration is the shorthand
\* [short |-> type], a literal list [enum |-> values] or an ArgDef object
\* [type, optional].  In a normalized argument the type is what the code
\* stored there: a type name [k |-> "str", v] or the declaration object
\* itself [k |-> "obj", v].

NormalizeFlag(flag) ==
    IF "short" \in DOMAIN flag
    THEN FlagDef(flag.short, Null, <<>>, FALSE, FALSE)
    ELSE flag

NormalizeFlagsSchema(flags) ==
    [k \in 1..Len(flags) |-> <<flags[k][1], NormalizeFlag(flags[k][2])>>]

TypeName(s) == [k |-> "str", v |-> s]

NormalizeArg(value) ==
    IF "enum" \in DOMAIN value
    THEN [type |-> TypeName("enum"), values |-> Some(value.enum)]
    ELSE IF "short" \in DOMAIN value
    THEN [type |-> TypeName(value.short), values |-> Null]
    ELSE [type |-> [k |-> "obj", v |-> value], values |-> Null]

NormalizeArgsSchema(args) ==
    [k \in 1..Len(args) |-> <<args[k][1], NormalizeArg(args[k][2])>>]

----------------------------------------------------------------------------
\* The validator and the default applier (validator.ts).

ErrorInfo(on, name, what) == [field |-> name, message |-> [on |-> on, name |-> name, what |-> what]]

\* Fault: a number flag holding NaN is rejected.
ValidateFlagRejectsNaN(name, value, def) ==
    IF ~IsNull(value) /\ def.type = "number" /\ Get(value) = VNaN
    THEN <<ErrorInfo("Flag", name, "must be a number")>>
    ELSE <<>>

\* value is <<>> (undefined) or <<v>>
ValidateFlag(name, value, def) ==
    LET scalar == ~IsNull(value) /\ ~IsArray(Get(value))
        required == IF def.required /\ IsNull(value)
                    THEN <<ErrorInfo("Flag", name, "is required")>> ELSE <<>>
        number == IF scalar /\ def.type = "number" /\ Get(value).t # "number"
                  THEN <<ErrorInfo("Flag", name, "must be a number")>> ELSE <<>>
        boolean == IF scalar /\ def.type = "boolean" /\ Get(value).t # "boolean"
                   THEN <<ErrorInfo("Flag", name, "must be a boolean")>> ELSE <<>>
        string == IF scalar /\ def.type = "string" /\ Get(value).t # "string"
                  THEN <<ErrorInfo("Flag", name, "must be a string")>> ELSE <<>>
        multiple == IF def.array /\ scalar
                    THEN <<ErrorInfo("Flag", name, "expects multiple values")>> ELSE <<>>
    IN required \o number \o boolean \o string \o multiple

Includes(list, x) == \E k \in 1..Len(list) : list[k] = x

\* value is <<>> (undefined) or <<string>>
ValidateArg(name, value, def) ==
    IF IsNull(value)
    THEN IF ~("optional" \in DOMAIN def /\ def.optional)
         THEN <<ErrorInfo("Argument", name, "is required")>> ELSE <<>>
    ELSE (IF def.type = TypeName("enum") /\ ~IsNull(def.values)
             /\ ~Includes(Get(def.values), Get(value))
          THEN <<ErrorInfo("Argument", name, "must be one of")>> ELSE <<>>)
         \o
         (IF def.type = TypeName("number") /\ ToNumber(Get(value)) = VNaN
          THEN <<ErrorInfo("Argument", name, "must be a number")>> ELSE <<>>)

MapGet(m, name) == IF MapHas(m, name) THEN Some(m[name]) ELSE Null
At(list, k) == IF k <= Len(list) THEN Some(list[k]) ELSE Null

RECURSIVE FlagErrorsFrom(_, _, _)
FlagErrorsFrom(defs, flags, k) ==
    IF k > Len(defs) THEN <<>>
    ELSE ValidateFlag(defs[k][1], MapGet(flags, defs[k][1]), defs[k][2])
         \o FlagErrorsFrom(defs, flags, k + 1)

RECURSIVE ArgErrorsFrom(_, _, _)
ArgErrorsFrom(defs, args, k) ==
    IF k > Len(defs) THEN <<>>
    ELSE (IF defs[k][1] # <<>> THEN ValidateArg(defs[k][1], At(args, k), defs[k][2]) ELSE <<>>)
         \o ArgErrorsFrom(defs, args, k + 1)

\* Fault: validation returns at the first error found.
ValidateCommandFirstError(command, args, flags) ==
    LET errors == FlagErrorsFrom(NormalizeFlagsSchema(command.flags), flags, 1)
                  \o ArgErrorsFrom(NormalizeArgsSchema(command.args), args, 1) IN
    [valid |-> Len(errors) = 0, errors |-> SubSeq(errors, 1, 1)]

ValidateCommand(command, args, flags) ==
    LET errors == FlagErrorsFrom(NormalizeFlagsSchema(command.flags), flags, 1)
                  \o ArgErrorsFrom(NormalizeArgsSchema(command.args), args, 1) IN
    [valid |-> Len(errors) = 0, errors |-> errors]

RECURSIVE ApplyDefaultsFrom(_, _, _)
ApplyDefaultsFrom(res, defs, k) ==
    IF k > Len(defs) THEN res
    ELSE ApplyDefaultsFrom(
            IF ~MapHas(res, defs[k][1]) /\ ~IsNull(defs[k][2].default)
            THEN MapSet(res, defs[k][1], Get(defs[k][2].default)) ELSE res,
            defs, k + 1)

ApplyDefaults(flags, defs) == ApplyDefaultsFrom(flags, defs, 1)

----------------------------------------------------------------------------
\* Errors (errors.ts) and the synchronous head of executeCommand
\* (executor.ts lines 21-59).

\* formatValidationErrors: the heading and one line per error
FormatValidationErrors(errors) ==
    <<"Validation failed:">> \o [k \in 1..Len(errors) |-> errors[k].message]

CLIError(class, code, message) ==
    [class |-> class, code |-> code, exitCode |-> 1, message |-> message,
     isError |-> TRUE, isRich |-> FALSE]

\* What user code throws: an Error, a RichError (ctx.error) or a value that
\* is no instance of Error.
Thrown(kind, by) ==
    [class |-> kind, code |-> "USER", exitCode |-> IF kind = "RichError" THEN 2 ELSE 1,
     message |-> <<by>>, isError |-> kind # "NonError", isRich |-> kind = "RichError"]

\* [a, b].join(" ")
RECURSIVE Join(_)
Join(path) ==
    IF Len(path) = 0 THEN <<>>
    ELSE IF Len(path) = 1 THEN path[1]
    ELSE path[1] \o <<" ">> \o Join(Tail(path))

\* The zip of the declared argument names with the positional values.
RECURSIVE ArgsObjectFrom(_, _, _, _)
ArgsObjectFrom(obj, defs, args, k) ==
    IF k > Len(defs) THEN obj
    ELSE ArgsObjectFrom(
            IF defs[k][1] # <<>> /\ k <= Len(args)
            THEN MapSet(obj, defs[k][1],
                        IF defs[k][2].type = TypeName("number")
                        THEN ToNumber(args[k]) ELSE VStr(args[k]))
            ELSE obj,
            defs, args, k + 1)

\* Fault: the spread the other way round, { ...b, ...a }.
SpreadFirstWins(a, b) ==
    [x \in (DOMAIN a) \cup (DOMAIN b) |-> IF x \in DOMAIN a THEN a[x] ELSE b[x]]

\* { ...a, ...b }
Spread(a, b) ==
    [x \in (DOMAIN a) \cup (DOMAIN b) |-> IF x \in DOMAIN b THEN b[x] ELSE a[x]]

\* Fault: validation sees the flags as given, before the defaults.
ValidationOfUndefaulted(command, args, flags, finalFlags) ==
    ValidateCommand(command, args, flags)

\* executor.ts line 27: validation sees the defaulted flags
ValidationOf(command, args, flags, finalFlags) == ValidateCommand(command, args, finalFlags)

ExecuteHead(command, args, flags, commandPath) ==
    LET normalizedFlags == NormalizeFlagsSchema(command.flags)
        finalFlags == ApplyDefaults(flags, normalizedFlags)
        validation == ValidationOf(command, args, flags, finalFlags)
        argsObject == ArgsObjectFrom(EmptyMap, NormalizeArgsSchema(command.args), args, 1)
    IN [validation |-> validation,
        finalFlags |-> finalFlags,
        argsObject |-> argsObject,
        hookContext |-> [command |-> Join(commandPath), args |-> argsObject,
                         flags |-> finalFlags],
        handlerArgs |-> Spread(argsObject, finalFlags)]

----------------------------------------------------------------------------
\* The hook runner (hooks.ts lines 3-68).  A CLIHooks object is the set of
\* the callbacks it defines; allHooks keeps, with each, its owner: 0 for the
\* top-level hooks, n for the n-th plugin.

RECURSIVE PluginHooksFrom(_, _)
PluginHooksFrom(plugins, k) ==
    IF k > Len(plugins) THEN <<>>
    ELSE (IF ~IsNull(plugins[k].hooks)
          THEN <<[owner |-> k, hooks |-> Get(plugins[k].hooks)]>> ELSE <<>>)
         \o PluginHooksFrom(plugins, k + 1)

\* createHookRunner's allHooks
AllHooks(cfg) ==
    (IF ~IsNull(cfg.hooks) THEN <<[owner |-> 0, hooks |-> Get(cfg.hooks)]>> ELSE <<>>)
    \o PluginHooksFrom(cfg.plugins, 1)

\* The callback a loop of the runner calls: run() runs onExit hooks in the
\* try block (code 0) and in the catch block (the error's code).
CallbackOf(phase) == IF phase = "onExitCatch" THEN "onExit" ELSE phase

\* Index of the next hook after k that defines the loop's callback, 0 if none.
NextHook(cfg, phase, k) ==
    LET all == AllHooks(cfg)
        S == { n \in (k + 1)..Len(all) : CallbackOf(phase) \in all[n].hooks } IN
    IF S = {} THEN 0 ELSE CHOOSE n \in S : \A m \in S : n <= m

\* Fault: the caller does not wait for the callback it called.
AwaitedNever(run) == TRUE

\* `await`: the caller goes on only when the callback it called has settled.
Awaited(run) == run = {}

HookPhases ==
    {"onInit", "onBeforeCommand", "onAfterCommand", "onExit", "onError", "onExitCatch"}

\* The loops inside run()'s try block.
InTry(phase) == phase \in {"onBeforeCommand", "handler", "onAfterCommand", "onExit"}

----------------------------------------------------------------------------
\* defineCLI(config).run(argv) (defineCLI.ts lines 38-163).

sDb == <<"d", "b">>
sRemove == <<"r", "e", "m", "o", "v", "e">>
sRm == <<"r", "m">>
sUp == <<"u", "p">>
sLs == <<"l", "s">>
sX == <<"x">>
sN == <<"n">>
sEnv == <<"e", "n", "v">>
sTarget == <<"t", "a", "r", "g", "e", "t">>
sHelp == <<"h", "e", "l", "p">>
sVersion == <<"v", "e", "r", "s", "i", "o", "n">>
sVerbose == <<"v", "e", "r", "b", "o", "s", "e">>
sAt == <<"a", "t">>
sPort == <<"p", "o", "r", "t">>
sSeven == <<"7">>

\* config.commands: in the style of the examples.  db has a nested command
\* with an alias, up a required flag and an enum argument, ls no handler.
RunSchema ==
    << <<sDb, CommandDef(1, <<>>,
              << <<sRemove, CommandDef(2, <<sRm>>, <<>>,
                     << <<sForce, FlagDef("boolean", Null, <<"f">>, FALSE, FALSE)>> >>,
                     << <<sTarget, [enum |-> <<sA, sB>>]>> >>, TRUE)>> >>,
              << <<sVerbose, FlagDef("boolean", Null, <<"v">>, FALSE, FALSE)>> >>,
              <<>>, TRUE)>>,
       <<sUp, CommandDef(3, <<>>, <<>>,
              << <<sN, FlagDef("number", Null, <<>>, TRUE, FALSE)>> >>,
              << <<sEnv, [enum |-> <<sA, sB>>]>> >>, TRUE)>>,
       <<sLs, CommandDef(4, <<>>, <<>>, <<>>, <<>>, FALSE)>>,
       <<sAt, CommandDef(5, <<>>, <<>>,
              << <<sN, [short |-> "number"]>> >>,
              << <<sPort, [short |-> "number"]>> >>, TRUE)>> >>

AllCallbacks == {"onInit", "onBeforeCommand", "onAfterCommand", "onError", "onExit"}

RunConfigs ==
    { [hooks |-> Some(AllCallbacks),
       plugins |-> << [hooks |-> Null], [hooks |-> Some(AllCallbacks)] >>],
      [hooks |-> Some({"onBeforeCommand", "onError"}),
       plugins |-> << [hooks |-> Some({"onInit", "onAfterCommand", "onExit"})] >>],
      [hooks |-> Null, plugins |-> <<>>] }

RunWords ==
    { sDb, sRm, sUp, sLs, sA, sX, <<"-", "f">>, <<"-", "-", "n", "=", "5">>,
      DASHDASH, <<"-", "h">>, <<"-", "v">> }

\* Longer invocations: up a --n=5 -- x, at 7 --n x, at 7 --n=x, at x
NaNFlagExample == << sAt, sSeven, <<"-", "-", "n">>, sX >>
NaNInlineExample == << sAt, sSeven, <<"-", "-", "n", "=", "x">> >>
RunExamples ==
    { << sUp, sA, <<"-", "-", "n", "=", "5">>, DASHDASH, sX >>,
      NaNFlagExample, NaNInlineExample, << sAt, sX >> }

\* collectGlobalFlags
GlobalFlags ==
    << <<sHelp, FlagDef("boolean", Null, <<"h">>, FALSE, FALSE)>>,
       <<sVersion, FlagDef("boolean", Null, <<"v">>, FALSE, FALSE)>> >>

\* { ...a, ...b } on records held as ordered entries
RECURSIVE SpreadEntries(_, _)
SpreadEntries(a, b) ==
    IF Len(b) = 0 THEN a
    ELSE LET e == b[1]
             merged == IF \E k \in 1..Len(a) : a[k][1] = e[1]
                       THEN [k \in 1..Len(a) |-> IF a[k][1] = e[1] THEN e ELSE a[k]]
                       ELSE Append(a, e) IN
         SpreadEntries(merged, Tail(b))

\* Lines 76-80: the first parse, with the global flags only, and the route.
FirstParse(av) == ParseArgv(av, GlobalFlags, BuildShortToLongMap(GlobalFlags))

\* Fault: the second parse reads the whole argument vector.
SecondParseWholeArgv(av, command, matchedPath) ==
    LET allFlags == SpreadEntries(GlobalFlags, NormalizeFlagsSchema(command.flags)) IN
    ParseArgv(av, allFlags, BuildShortToLongMap(allFlags))

\* Lines 91-99: the second parse, with the command's flags.
SecondParse(av, command, matchedPath) ==
    LET allFlags == SpreadEntries(GlobalFlags, NormalizeFlagsSchema(command.flags)) IN
    ParseArgv(SliceFrom(av, Len(matchedPath)), allFlags, BuildShortToLongMap(allFlags))

\* Lines 113-120: the options executeCommand is called with, and its head.
ExecOf(av, rt) ==
    LET cp == SecondParse(av, Get(rt.command), rt.matchedPath)
        xs == rt.remaining \o cp.args IN
    [args |-> xs, flags |-> cp.flags, commandPath |-> rt.matchedPath,
     head |-> ExecuteHead(Get(rt.command), xs, cp.flags, rt.matchedPath)]

\* Fault: the result of the validation is ignored.
ValidationFailsNever(validation) == FALSE

\* executor.ts line 28: if (!validation.valid)
ValidationFails(validation) == ~validation.valid

\* Fault: the catch block goes straight to the onExit hooks.
CatchPhaseSkipsOnError(err) == "onExitCatch"

\* The catch block's first decision (lines 122-141): an Error goes to the
\* onError hooks, anything else straight to the onExit hooks.
CatchPhase(err) == IF err.isError THEN "onError" ELSE "onExitCatch"

\* The code the catch block exits with.
ExitCodeOf(err) == IF err.isError /\ err.isRich THEN err.exitCode ELSE 1

Includes2(av, x, y) == Includes(av, x) \/ Includes(av, y)
WantsHelp(av) == Includes2(av, DASHDASH \o sHelp, <<"-", "h">>)
WantsVersion(av) == Includes2(av, DASHDASH \o sVersion, <<"-", "v">>)

Event(cb, owner, ev, with) == [cb |-> cb, owner |-> owner, ev |-> ev, with |-> with]

\* What a callback of a loop is called with.
HookArg(phase) ==
    CASE phase = "onError" ->
            [error |-> Get(error),
             command |-> Join(Get(route).matchedPath)]
      [] phase = "onExit" -> [code |-> 0]
      [] phase = "onExitCatch" -> [code |-> ExitCodeOf(Get(error))]
      [] phase = "onInit" -> [none |-> TRUE]
      [] OTHER -> Get(exec).head.hookContext

RunIdleOutputs ==
    /\ error = Null
    /\ rejection = Null
    /\ exitCode = Null
    /\ out = <<>>
    /\ parsed = Null
    /\ route = Null
    /\ commandParsed = Null
    /\ exec = Null

RunInit ==
    /\ config \in RunConfigs
    /\ cliArgs \in SeqsUpTo(RunWords, MaxRunArgv) \cup RunExamples
    /\ pc = "start"
    /\ hk = 0
    /\ running = {}
    /\ log = <<>>
    /\ RunIdleOutputs
    /\ listeners = 0
    /\ cleanupHandlers = <<>>

\* Lines 42-48: installSignalHandlers, onCleanup, then the onInit hooks.
RunStart ==
    /\ pc = "start"
    /\ listeners' = listeners + 1
    /\ cleanupHandlers' = Append(cleanupHandlers, "resetTerminal")
    /\ pc' = "onInit"
    /\ hk' = 0
    /\ UNCHANGED <<config, cliArgs, running, log, error, rejection, exitCode, out,
                   parsed, route, commandParsed, exec>>
    /\ UNCHANGED <<parseVars, routerVars, execVars, sigVars, testVars>>

\* One of the runner's loops calls the next hook that defines the callback.
HookCall ==
    /\ pc \in HookPhases
    /\ Awaited(running)
    /\ NextHook(config, pc, hk) # 0
    /\ LET n == NextHook(config, pc, hk)
           owner == AllHooks(config)[n].owner IN
        /\ hk' = n
        /\ running' = running \cup {<<CallbackOf(pc), owner>>}
        /\ log' = Append(log, Event(CallbackOf(pc), owner, "call", HookArg(pc)))
    /\ UNCHANGED <<config, cliArgs, pc, error, rejection, exitCode, out,
                   parsed, route, commandParsed, exec, listeners, cleanupHandlers>>
    /\ UNCHANGED <<parseVars, routerVars, execVars, sigVars, testVars>>

\* The callback's promise resolves.
HookReturn ==
    /\ pc \in HookPhases
    /\ \E c \in running :
        /\ c[1] = CallbackOf(pc)
        /\ running' = running \ {c}
        /\ log' = Append(log, Event(c[1], c[2], "ok", [none |-> TRUE]))
    /\ UNCHANGED <<config, cliArgs, pc, hk, error, rejection, exitCode, out,
                   parsed, route, commandParsed, exec, listeners, cleanupHandlers>>
    /\ UNCHANGED <<parseVars, routerVars, execVars, sigVars, testVars>>

\* The callback throws or its promise rejects.  Inside the try block the
\* catch block takes the error; outside, it leaves run().
HookThrow ==
    /\ pc \in HookPhases
    /\ \E c \in running, kind \in {"Error", "NonError"} :
        /\ c[1] = CallbackOf(pc)
        /\ running' = running \ {c}
        /\ log' = Append(log, Event(c[1], c[2], "throw", [kind |-> kind]))
        /\ IF InTry(pc)
           THEN /\ error' = Some(Thrown(kind, c[1]))
                /\ pc' = CatchPhase(Thrown(kind, c[1]))
                /\ rejection' = rejection
           ELSE /\ error' = IF IsNull(error) THEN Some(Thrown(kind, c[1])) ELSE error
                /\ pc' = "rejected"
                /\ rejection' = Some(Thrown(kind, c[1]))
    /\ hk' = 0
    /\ UNCHANGED <<config, cliArgs, exitCode, out, parsed, route, commandParsed, exec,
                   listeners, cleanupHandlers>>
    /\ UNCHANGED <<parseVars, routerVars, execVars, sigVars, testVars>>

\* A loop of the runner ends: what run() and executeCommand do next.
HookLoopDone ==
    /\ pc \in HookPhases
    /\ Awaited(running)
    /\ NextHook(config, pc, hk) = 0
    /\ hk' = 0
    /\ pc' = CASE pc = "onInit" -> "dispatch"
               [] pc = "onBeforeCommand" -> "handler"
               [] pc = "onAfterCommand" -> "onExit"
               [] pc = "onExit" -> "returned"
               [] pc = "onError" -> "onExitCatch"
               [] pc = "onExitCatch" -> "exited"
    /\ out' = IF pc = "onError"
              THEN Append(out, [stream |-> "stderr",
                                what |-> IF Get(error).isRich THEN "formatRichError"
                                         ELSE "formatError"])
              ELSE out
    /\ exitCode' = IF pc = "onExitCatch" THEN Some(ExitCodeOf(Get(error))) ELSE exitCode
    /\ UNCHANGED <<config, cliArgs, running, log, error, rejection,
                   parsed, route, commandParsed, exec, listeners, cleanupHandlers>>
    /\ UNCHANGED <<parseVars, routerVars, execVars, sigVars, testVars>>

\* Lines 52-66: --help or -h anywhere in args.
RunHelp ==
    /\ pc = "dispatch"
    /\ WantsHelp(cliArgs)
    /\ out' = Append(out, [stream |-> "stdout", what |-> "help"])
    /\ pc' = "returned"
    /\ UNCHANGED <<config, cliArgs, hk, running, log, error, rejection, exitCode,
                   parsed, route, commandParsed, exec, listeners, cleanupHandlers>>
    /\ UNCHANGED <<parseVars, routerVars, execVars, sigVars, testVars>>

\* Lines 68-71: --version or -v anywhere in args.
RunVersion ==
    /\ pc = "dispatch"
    /\ ~WantsHelp(cliArgs)
    /\ WantsVersion(cliArgs)
    /\ out' = Append(out, [stream |-> "stdout", what |-> "version"])
    /\ pc' = "returned"
    /\ UNCHANGED <<config, cliArgs, hk, running, log, error, rejection, exitCode,
                   parsed, route, commandParsed, exec, listeners, cleanupHandlers>>
    /\ UNCHANGED <<parseVars, routerVars, execVars, sigVars, testVars>>

Routed(av) == FindCommand(router, FirstParse(av).commands)

\* Lines 82-87: no command matched and none was typed.
RunNoCommand ==
    /\ pc = "dispatch"
    /\ ~WantsHelp(cliArgs) /\ ~WantsVersion(cliArgs)
    /\ IsNull(Routed(cliArgs).command)
    /\ Len(FirstParse(cliArgs).commands) = 0
    /\ parsed' = Some(FirstParse(cliArgs))
    /\ route' = Some(Routed(cliArgs))
    /\ out' = Append(out, [stream |-> "stdout", what |-> "help"])
    /\ pc' = "returned"
    /\ UNCHANGED <<config, cliArgs, hk, running, log, error, rejection, exitCode,
                   commandParsed, exec, listeners, cleanupHandlers>>
    /\ UNCHANGED <<parseVars, routerVars, execVars, sigVars, testVars>>

\* Line 88: throw new CommandNotFoundError, outside the try block.
RunNotFound ==
    /\ pc = "dispatch"
    /\ ~WantsHelp(cliArgs) /\ ~WantsVersion(cliArgs)
    /\ IsNull(Routed(cliArgs).command)
    /\ Len(FirstParse(cliArgs).commands) # 0
    /\ parsed' = Some(FirstParse(cliArgs))
    /\ route' = Some(Routed(cliArgs))
    /\ LET e == CLIError("CommandNotFoundError", "COMMAND_NOT_FOUND",
                         <<"Command not found:", Join(FirstParse(cliArgs).commands)>>) IN
        /\ error' = Some(e)
        /\ rejection' = Some(e)
    /\ pc' = "rejected"
    /\ UNCHANGED <<config, cliArgs, hk, running, log, exitCode, out,
                   commandParsed, exec, listeners, cleanupHandlers>>
    /\ UNCHANGED <<parseVars, routerVars, execVars, sigVars, testVars>>

\* Lines 91-120 and executor.ts 21-31: the command is parsed again and
\* executeCommand throws the aggregated validation error.
RunInvalid ==
    /\ pc = "dispatch"
    /\ ~WantsHelp(cliArgs) /\ ~WantsVersion(cliArgs)
    /\ ~IsNull(Routed(cliArgs).command)
    /\ LET rt == Routed(cliArgs)
           ex == ExecOf(cliArgs, rt)
           e == CLIError("CLIError", "VALIDATION_ERROR",
                         FormatValidationErrors(ex.head.validation.errors)) IN
        /\ ValidationFails(ex.head.validation)
        /\ parsed' = Some(FirstParse(cliArgs))
        /\ route' = Some(rt)
        /\ commandParsed' = Some(SecondParse(cliArgs, Get(rt.command), rt.matchedPath))
        /\ exec' = Some(ex)
        /\ error' = Some(e)
        /\ pc' = CatchPhase(e)
    /\ hk' = 0
    /\ UNCHANGED <<config, cliArgs, running, log, rejection, exitCode, out,
                   listeners, cleanupHandlers>>
    /\ UNCHANGED <<parseVars, routerVars, execVars, sigVars, testVars>>

\* Lines 91-120 and executor.ts 21-61: validation passes and executeCommand
\* reaches the onBeforeCommand hooks.
RunExecute ==
    /\ pc = "dispatch"
    /\ ~WantsHelp(cliArgs) /\ ~WantsVersion(cliArgs)
    /\ ~IsNull(Routed(cliArgs).command)
    /\ LET rt == Routed(cliArgs)
           ex == ExecOf(cliArgs, rt) IN
        /\ ~ValidationFails(ex.head.validation)
        /\ parsed' = Some(FirstParse(cliArgs))
        /\ route' = Some(rt)
        /\ commandParsed' = Some(SecondParse(cliArgs, Get(rt.command), rt.matchedPath))
        /\ exec' = Some(ex)
    /\ pc' = "onBeforeCommand"
    /\ hk' = 0
    /\ UNCHANGED <<config, cliArgs, running, log, error, rejection, exitCode, out,
                   listeners, cleanupHandlers>>
    /\ UNCHANGED <<parseVars, routerVars, execVars, sigVars, testVars>>

\* executor.ts lines 63-65: the handler is called, if the command has one.
HandlerCall ==
    /\ pc = "handler"
    /\ Awaited(running)
    /\ hk = 0
    /\ Get(Get(route).command).run
    /\ hk' = 1
    /\ running' = running \cup {<<"handler", 0>>}
    /\ log' = Append(log, Event("handler", 0, "call", Get(exec).head.handlerArgs))
    /\ UNCHANGED <<config, cliArgs, pc, error, rejection, exitCode, out,
                   parsed, route, commandParsed, exec, listeners, cleanupHandlers>>
    /\ UNCHANGED <<parseVars, routerVars, execVars, sigVars, testVars>>

HandlerReturn ==
    /\ pc = "handler"
    /\ <<"handler", 0>> \in running
    /\ running' = running \ {<<"handler", 0>>}
    /\ log' = Append(log, Event("handler", 0, "ok", [none |-> TRUE]))
    /\ UNCHANGED <<config, cliArgs, pc, hk, error, rejection, exitCode, out,
                   parsed, route, commandParsed, exec, listeners, cleanupHandlers>>
    /\ UNCHANGED <<parseVars, routerVars, execVars, sigVars, testVars>>

HandlerThrow ==
    /\ pc = "handler"
    /\ <<"handler", 0>> \in running
    /\ \E kind \in {"Error", "RichError", "NonError"} :
        /\ log' = Append(log, Event("handler", 0, "throw", [kind |-> kind]))
        /\ error' = Some(Thrown(kind, "handler"))
        /\ pc' = CatchPhase(Thrown(kind, "handler"))
    /\ running' = running \ {<<"handler", 0>>}
    /\ hk' = 0
    /\ UNCHANGED <<config, cliArgs, rejection, exitCode, out,
                   parsed, route, commandParsed, exec, listeners, cleanupHandlers>>
    /\ UNCHANGED <<parseVars, routerVars, execVars, sigVars, testVars>>

\* executor.ts line 67: on to the onAfterCommand hooks, the handler done or
\* absent.
HandlerDone ==
    /\ pc = "handler"
    /\ Awaited(running)
    /\ (hk = 1 \/ ~Get(Get(route).command).run)
    /\ pc' = "onAfterCommand"
    /\ hk' = 0
    /\ UNCHANGED <<config, cliArgs, running, log, error, rejection, exitCode, out,
                   parsed, route, commandParsed, exec, listeners, cleanupHandlers>>
    /\ UNCHANGED <<parseVars, routerVars, execVars, sigVars, testVars>>

RunNext ==
    \/ RunStart \/ HookCall \/ HookReturn \/ HookThrow \/ HookLoopDone
    \/ RunHelp \/ RunVersion \/ RunNoCommand \/ RunNotFound \/ RunInvalid \/ RunExecute
    \/ HandlerCall \/ HandlerReturn \/ HandlerThrow \/ HandlerDone

----------------------------------------------------------------------------
\* Properties of run() and executeCommand, stated over the log of the calls
\* made to the callbacks and of their settling.

\* The owners whose hooks define a callback, read from the configuration:
\* 0 for config.hooks, n for config.plugins[n].
Definers(cb) ==
    (IF ~IsNull(config.hooks) /\ cb \in Get(config.hooks) THEN {0} ELSE {})
    \cup { n \in 1..Len(config.plugins) :
             ~IsNull(config.plugins[n].hooks) /\ cb \in Get(config.plugins[n].hooks) }

IsCall(k, cb, owner) ==
    log[k].cb = cb /\ log[k].owner = owner /\ log[k].ev = "call"

IsResolved(k, cb, owner) ==
    log[k].cb = cb /\ log[k].owner = owner /\ log[k].ev = "ok"

Called(cb) == \E k \in 1..Len(log) : log[k].cb = cb /\ log[k].ev = "call"

\* The callbacks executeCommand awaits, as <<stage, owner>>: the stages are
\* 1 the onBeforeCommand hooks, 2 the handler, 3 the onAfterCommand hooks.
StageName(n) ==
    CASE n = 1 -> "onBeforeCommand" [] n = 2 -> "handler" [] n = 3 -> "onAfterCommand"

ExecStages == {"onBeforeCommand", "handler", "onAfterCommand"}

StageOf(cb) == CHOOSE n \in 1..3 : StageName(n) = cb

ExpectedUnits ==
    { <<1, o>> : o \in Definers("onBeforeCommand") }
    \cup (IF Get(Get(route).command).run THEN {<<2, 0>>} ELSE {})
    \cup { <<3, o>> : o \in Definers("onAfterCommand") }

Precedes(u, v) == u[1] < v[1] \/ (u[1] = v[1] /\ u[2] < v[2])

\* C1: in a valid invocation each onBeforeCommand hook, the handler and each
\* onAfterCommand hook is called only after every callback due before it
\* (top-level hooks before plugins, plugins in declaration order, before
\* hooks before the handler before after hooks) was called and has resolved,
\* none is called twice or out of turn, and executeCommand returns only
\* after all of them have resolved.
C1_HooksAndHandlerInStrictSequence ==
    /\ \A k \in 1..Len(log) :
          (log[k].cb \in ExecStages /\ log[k].ev = "call") =>
              LET u == <<StageOf(log[k].cb), log[k].owner>> IN
              /\ u \in ExpectedUnits
              /\ \A v \in ExpectedUnits :
                    Precedes(v, u) =>
                        \E j \in 1..(k - 1) : \E m \in (j + 1)..(k - 1) :
                            /\ IsCall(j, StageName(v[1]), v[2])
                            /\ IsResolved(m, StageName(v[1]), v[2])
              /\ \A j \in 1..(k - 1) :
                    (log[j].cb \in ExecStages /\ log[j].ev = "call") =>
                        Precedes(<<StageOf(log[j].cb), log[j].owner>>, u)
    /\ (pc \in {"onExit", "returned"} /\ ~IsNull(exec)) =>
          \A v \in ExpectedUnits :
              \E j, m \in 1..Len(log) :
                  /\ j < m
                  /\ IsCall(j, StageName(v[1]), v[2])
                  /\ IsResolved(m, StageName(v[1]), v[2])

\* C1 witness: a command with a handler ran to the end under a configuration
\* with two onBeforeCommand and two onAfterCommand hooks.
C1_Witness ==
    /\ pc = "returned"
    /\ ~IsNull(exec)
    /\ Get(Get(route).command).run
    /\ Cardinality(Definers("onBeforeCommand")) = 2
    /\ Cardinality(Definers("onAfterCommand")) = 2
    /\ Cardinality({ k \in 1..Len(log) :
                       log[k].cb \in ExecStages /\ log[k].ev = "ok" }) = 5

\* C2: when the validation of the command fails, the error of the invocation
\* is one validation error listing every failure, and no onBeforeCommand
\* hook, handler or onAfterCommand hook is called.
C2_InvalidCommandCallsNothing ==
    (~IsNull(exec) /\ ~Get(exec).head.validation.valid) =>
        LET errors == Get(exec).head.validation.errors IN
        /\ errors # <<>>
        /\ ~IsNull(error)
        /\ Get(error).code = "VALIDATION_ERROR"
        /\ Len(Get(error).message) = 1 + Len(errors)
        /\ \A n \in 1..Len(errors) : Get(error).message[n + 1] = errors[n].message
        /\ \A k \in 1..Len(log) : log[k].cb \notin ExecStages

\* C2 witness: an invocation with two validation failures, under hooks that
\* define onBeforeCommand, has reached the exit.
C2_Witness ==
    /\ pc = "exited"
    /\ ~IsNull(exec)
    /\ Len(Get(exec).head.validation.errors) = 2
    /\ Definers("onBeforeCommand") # {}

HandlerThrew ==
    \E k \in 1..Len(log) : log[k].cb = "handler" /\ log[k].ev = "throw"

\* Every hook defining the callback was called and it resolved.
AllRan(cb) ==
    \A o \in Definers(cb) :
        \E j, m \in 1..Len(log) : j < m /\ IsCall(j, cb, o) /\ IsResolved(m, cb, o)

\* Every call of the callback a is before every call of the callback b.
AllBefore(a, b) ==
    \A j, m \in 1..Len(log) :
        (log[j].cb = a /\ log[m].cb = b) => j < m

\* C3 as stated: when the handler threw, no onAfterCommand hook is called,
\* and the process exit is decided only after every onError hook and then
\* every onExit hook ran.
C3_HandlerThrowRunsOnErrorThenOnExit ==
    HandlerThrew =>
        /\ ~Called("onAfterCommand")
        /\ pc = "exited" =>
              /\ AllRan("onError")
              /\ AllRan("onExit")
              /\ AllBefore("onError", "onExit")

\* C3 amended: when the handler threw, no onAfterCommand hook is called, and
\* the process exit is decided only after every onExit hook ran; every
\* onError hook ran before them if what the handler threw is an Error, and
\* no onError hook is called if it is not.
C3_HandlerThrowRunsOnErrorIfError ==
    HandlerThrew =>
        /\ ~Called("onAfterCommand")
        /\ pc = "exited" =>
              /\ AllRan("onExit")
              /\ AllBefore("onError", "onExit")
              /\ Get(error).isError => AllRan("onError")
              /\ ~Get(error).isError => ~Called("onError")

\* C3 witness: the handler threw an Error and the exit was reached under a
\* configuration with onAfterCommand, onError and onExit hooks.
C3_Witness ==
    /\ HandlerThrew
    /\ pc = "exited"
    /\ Get(error).isError
    /\ Cardinality(Definers("onError")) = 2
    /\ Cardinality(Definers("onExit")) = 2
    /\ Definers("onAfterCommand") # {}

\* The errors of the taxonomy: the validation error, the command-not-found
\* error and an Error thrown by the handler.
InTaxonomy(e) ==
    \/ e.code \in {"VALIDATION_ERROR", "COMMAND_NOT_FOUND"}
    \/ (e.isError /\ e.message = <<"handler">>)

\* run() has failed, and the error it failed with is e.
FailedWith(e) ==
    \/ pc = "exited" /\ error = Some(e)
    \/ pc = "rejected" /\ rejection = Some(e)

\* C4: when run() has failed with an error of the taxonomy, that error is
\* the only one of the invocation and every onError hook was called with it
\* and with the command path matched so far.
C4_OnErrorHooksReceiveTheError ==
    \A e \in { Get(x) : x \in {error, rejection} \ {Null} } :
        (InTaxonomy(e) /\ FailedWith(e)) =>
            /\ error = Some(e)
            /\ \A o \in Definers("onError") :
                  \E k \in 1..Len(log) :
                      /\ IsCall(k, "onError", o)
                      /\ log[k].with = [error |-> e,
                                        command |-> Join(Get(route).matchedPath)]

\* The definitions the leading segments of a path name in a schema, each by
\* its name or by an alias, level by level.
SchemaIndex(entries, segment) ==
    LET S == { k \in 1..Len(entries) :
                 entries[k][1] = segment \/ segment \in Range(entries[k][2].alias) } IN
    IF S = {} THEN 0 ELSE CHOOSE k \in S : TRUE

RECURSIVE SchemaWalk(_, _)
SchemaWalk(entries, path) ==
    IF path = <<>> \/ SchemaIndex(entries, path[1]) = 0 THEN <<>>
    ELSE LET def == entries[SchemaIndex(entries, path[1])][2] IN
         <<def>> \o SchemaWalk(def.commands, Tail(path))

IsCommandNotFound(e) == ~IsNull(e) /\ Get(e).code = "COMMAND_NOT_FOUND"

\* C5: the command-not-found error is raised only when the first segment of
\* the command path names no declared command; when leading segments name
\* declared commands, the deepest of them is dispatched, the segments after
\* it lead its positional input, and no command-not-found error is raised.
C5_NotFoundOnlyWhenNothingMatched ==
    ~IsNull(parsed) =>
        LET path == Get(parsed).commands
            defs == SchemaWalk(RunSchema, path) IN
        /\ (IsCommandNotFound(error) \/ IsCommandNotFound(rejection)) => defs = <<>>
        /\ defs # <<>> =>
              /\ ~IsCommandNotFound(error) /\ ~IsCommandNotFound(rejection)
              /\ ~IsNull(exec)
              /\ Get(route).command = Some(defs[Len(defs)])
              /\ Get(exec).commandPath = SubSeq(path, 1, Len(defs))
              /\ Len(Get(exec).args) >= Len(path) - Len(defs)
              /\ SubSeq(Get(exec).args, 1, Len(path) - Len(defs))
                    = SubSeq(path, Len(defs) + 1, Len(path))

\* C5 witness: `db x` ran the handler of db with x as its positional input.
C5_Witness ==
    /\ pc = "returned"
    /\ ~IsNull(exec)
    /\ Get(parsed).commands = <<sDb, sX>>
    /\ Get(route).command = Some(RunSchema[1][2])
    /\ Get(exec).args = <<sX>>
    /\ \E k \in 1..Len(log) : log[k].cb = "handler" /\ log[k].ev = "ok"

----------------------------------------------------------------------------
\* executeCommand as steps (executor.ts lines 21-65): the defaults, the
\* validation, then the throw or the call of the handler with the merged
\* object.  The hooks around the handler are in run()'s model above.

\* Longest list of positional values given to executeCommand.
MaxExecArgs == 2

\* Fault: applyDefaults writes the defaults into the caller's Map.
ApplyDefaultsInPlace(flags, defs) ==
    [flags |-> ApplyDefaults(flags, defs), result |-> ApplyDefaults(flags, defs)]

\* applyDefaults called on the caller's Map: the Map as the call leaves it
\* and the Map returned (validator.ts line 150 copies, lines 151-155 write
\* to the copy)
ApplyDefaultsCall(flags, defs) ==
    [flags |-> flags, result |-> ApplyDefaults(flags, defs)]

\* Commands as defineCommand is given them: required flags with and without
\* a default, a shorthand flag, an array flag, arguments declared by type
\* name, by literal list and by ArgDef object, and an argument named as a
\* flag is.
ExecCommands ==
    { CommandDef(1, <<>>, <<>>,
                 << <<sPort, FlagDef("number", Some(VNum(3)), <<>>, TRUE, FALSE)>>,
                    <<sTag, [short |-> "string"]>> >>,
                 <<>>, TRUE),
      CommandDef(2, <<>>, <<>>,
                 << <<sN, FlagDef("number", Null, <<>>, TRUE, FALSE)>>,
                    <<sTag, FlagDef("string", Null, <<>>, FALSE, TRUE)>> >>,
                 << <<sEnv, [enum |-> <<sA, sB>>]>> >>, TRUE),
      CommandDef(3, <<>>, <<>>, <<>>,
                 << <<sTarget, [short |-> "string"]>>,
                    <<sFile, [type |-> "string", optional |-> TRUE]>> >>, TRUE),
      CommandDef(4, <<>>, <<>>,
                 << <<sPort, [short |-> "number"]>> >>,
                 << <<sPort, [short |-> "number"]>>,
                    <<sN, [short |-> "string"]>> >>, TRUE) }

ExecFlagNames == {sPort, sN, sTag}
ExecFlagValues == {VBool(TRUE), VStr(sA), VNum(5), VArr(<<VStr(sA)>>)}
ExecArgValues == {sA, sX, sSeven}

ExecInit ==
    /\ xCommand \in ExecCommands
    /\ xArgs \in SeqsUpTo(ExecArgValues, MaxExecArgs)
    /\ xFlags \in UNION { [D -> ExecFlagValues] : D \in SUBSET ExecFlagNames }
    /\ xpc = "start"
    /\ xFinal = Null /\ xValidation = Null /\ xCall = Null

ExecIdle ==
    /\ xCommand = CommandDef(0, <<>>, <<>>, <<>>, <<>>, FALSE)
    /\ xArgs = <<>> /\ xFlags = EmptyMap
    /\ xpc = "idle"
    /\ xFinal = Null /\ xValidation = Null /\ xCall = Null

\* executor.ts lines 24-25
ExecDefaults ==
    /\ xpc = "start"
    /\ LET call == ApplyDefaultsCall(xFlags, NormalizeFlagsSchema(xCommand.flags)) IN
         /\ xFlags' = call.flags
         /\ xFinal' = Some(call.result)
    /\ xpc' = "defaulted"
    /\ UNCHANGED <<xCommand, xArgs, xValidation, xCall>>
    /\ UNCHANGED <<parseVars, routerVars, runVars, sigVars, testVars>>

\* executor.ts line 27
ExecValidate ==
    /\ xpc = "defaulted"
    /\ xValidation' = Some(ValidationOf(xCommand, xArgs, xFlags, Get(xFinal)))
    /\ xpc' = "validated"
    /\ UNCHANGED <<xCommand, xArgs, xFlags, xFinal, xCall>>
    /\ UNCHANGED <<parseVars, routerVars, runVars, sigVars, testVars>>

\* executor.ts lines 28-31
ExecThrow ==
    /\ xpc = "validated"
    /\ ValidationFails(Get(xValidation))
    /\ xpc' = "thrown"
    /\ UNCHANGED <<xCommand, xArgs, xFlags, xFinal, xValidation, xCall>>
    /\ UNCHANGED <<parseVars, routerVars, runVars, sigVars, testVars>>

\* executor.ts lines 33-64
ExecCall ==
    /\ xpc = "validated"
    /\ ~ValidationFails(Get(xValidation))
    /\ xCommand.run
    /\ xCall' = Some(Spread(ArgsObjectFrom(EmptyMap, NormalizeArgsSchema(xCommand.args),
                                           xArgs, 1),
                            Get(xFinal)))
    /\ xpc' = "called"
    /\ UNCHANGED <<xCommand, xArgs, xFlags, xFinal, xValidation>>
    /\ UNCHANGED <<parseVars, routerVars, runVars, sigVars, testVars>>

ExecNext == ExecDefaults \/ ExecValidate \/ ExecThrow \/ ExecCall

----------------------------------------------------------------------------
\* Properties of parseArgv on whole argument vectors and step by step.

\* The flags of the documented deploy example.
DeployFlags ==
    [x \in {sForce, sRegion} |-> IF x = sForce THEN VBool(TRUE) ELSE VStr(sUsEast1)]

\* C11 as stated: parseArgv of the deploy example gives commands [deploy],
\* flags {force: true, region: "us-east-1"} and args [prod, extra, arg].
C11_DeployExampleAsStated ==
    (ppc = "done" /\ argv = DeployExample) =>
        result = [commands |-> <<sDeploy>>, flags |-> DeployFlags,
                  args |-> <<sProd, sExtra, sArg>>]

\* C11 amended: parseArgv of the deploy example gives commands [deploy, prod]
\* (prod is a value of the command phase), flags {force: true, region:
\* "us-east-1"} and args [extra, arg].
C11_DeployExampleParse ==
    (ppc = "done" /\ argv = DeployExample) =>
        result = [commands |-> <<sDeploy, sProd>>, flags |-> DeployFlags,
                  args |-> <<sExtra, sArg>>]

\* C11 witness: the deploy example has been parsed to its end.
C11_Witness ==
    /\ ppc = "done"
    /\ argv = DeployExample
    /\ i = 8
    /\ MapHas(result.flags, sRegion)

\* The step parseGrammar is about to take stores a value for the pending
\* flag: expectValue is set and the token is not the DoubleDash token.
StoresPendingValue ==
    /\ ppc = "parse" /\ i' = i + 1
    /\ ~IsNull(expectValue)
    /\ tokens[i + 1].type # "DOUBLE_DASH"

\* The values held for a flag before the step, as a list.
HeldValues(name) ==
    IF ~MapHas(result.flags, name) THEN <<>>
    ELSE IF IsArray(result.flags[name]) THEN result.flags[name].xs
    ELSE <<result.flags[name]>>

\* C12: each value parseGrammar stores for a flag declared array is appended
\* to the list of the values stored for it so far, the first making a list
\* of one; a value stored for a flag not declared array replaces what was
\* stored; the flags a step does not store keep their values.  The example
\* --file a.ts --file b.ts gives file = [a.ts, b.ts].
C12_ArrayFlagsAccumulate ==
    /\ [](  (ppc = "done" /\ argv = FileExample) =>
               result.flags = [x \in {sFile} |-> VArr(<<VStr(sATs), VStr(sBTs)>>)])
    /\ [][ StoresPendingValue =>
             LET name == Get(expectValue)
                 def == Get(Lookup(ParseFlagDefs, name))
                 value == CoerceValue(tokens[i + 1].value, def.type) IN
             /\ DOMAIN result'.flags = DOMAIN result.flags \cup {name}
             /\ \A n \in DOMAIN result.flags : n # name => result'.flags[n] = result.flags[n]
             /\ result'.flags[name] = IF def.array THEN VArr(Append(HeldValues(name), value))
                                      ELSE value ]_vars

\* C12 witness: the example is parsed, file holding two values; a flag not
\* declared array would hold one.
C12_Witness ==
    /\ ppc = "done"
    /\ argv = FileExample
    /\ MapHas(result.flags, sFile)
    /\ Len(result.flags[sFile].xs) = 2

Undeclared(name) == IsNull(Lookup(ParseFlagDefs, name))

\* The name of a Flag or ShortFlag token after short-alias resolution.
FlagNameOf(token) ==
    IF token.type = "SHORT_FLAG"
    THEN ResolveShort(BuildShortToLongMap(ParseFlagDefs), token.value)
    ELSE token.value

\* A command declaring the flags the parser was given.
ParsedCommand == CommandDef(0, <<>>, <<>>, ParseFlagDefs, <<>>, TRUE)

----------------------------------------------------------------------------
\* Properties of executeCommand, of the validator and of the normalizer.

DeclaredFlags == NormalizeFlagsSchema(xCommand.flags)
DeclaredArgs == NormalizeArgsSchema(xCommand.args)

HasError(errors, on, name, what) ==
    \E k \in 1..Len(errors) : errors[k] = ErrorInfo(on, name, what)

RequiredWithDefault(def) == def.required /\ ~IsNull(def.default)

\* C14: once executeCommand has validated, the errors hold no "is required"
\* entry for a flag declared both required and with a default, whether the
\* caller's flags held the flag or not.
C14_RequiredWithDefaultNeverMissing ==
    ~IsNull(xValidation) =>
        \A k \in 1..Len(DeclaredFlags) :
            RequiredWithDefault(DeclaredFlags[k][2]) =>
                ~HasError(Get(xValidation).errors, "Flag", DeclaredFlags[k][1],
                          "is required")

\* A command whose required flag with a default was not supplied, and whose
\* handler was called.
C14_Witness ==
    /\ xpc = "called"
    /\ \E k \in 1..Len(DeclaredFlags) :
          /\ RequiredWithDefault(DeclaredFlags[k][2])
          /\ ~MapHas(xFlags, DeclaredFlags[k][1])
          /\ Get(xFinal)[DeclaredFlags[k][1]] = Get(DeclaredFlags[k][2].default)

\* The checks of validateFlag and of validateArg, one by one, on the
\* validated values: the flags after the defaults, the k-th positional.
FlagChecks ==
    {"is required", "must be a number", "must be a boolean", "must be a string",
     "expects multiple values"}

FlagCheckFails(k, what) ==
    LET def == DeclaredFlags[k][2]
        value == MapGet(Get(xFinal), DeclaredFlags[k][1])
        scalar == ~IsNull(value) /\ ~IsArray(Get(value))
    IN CASE what = "is required" -> def.required /\ IsNull(value)
         [] what = "expects multiple values" -> def.array /\ scalar
         [] what = "must be a number" ->
                scalar /\ def.type = "number" /\ Get(value).t # "number"
         [] what = "must be a boolean" ->
                scalar /\ def.type = "boolean" /\ Get(value).t # "boolean"
         [] what = "must be a string" ->
                scalar /\ def.type = "string" /\ Get(value).t # "string"

ArgChecks == {"is required", "must be one of", "must be a number"}

ArgCheckFails(k, what) ==
    LET def == DeclaredArgs[k][2]
        value == At(xArgs, k)
    IN CASE what = "is required" ->
                IsNull(value) /\ ~("optional" \in DOMAIN def /\ def.optional)
         [] what = "must be one of" ->
                /\ ~IsNull(value)
                /\ def.type = TypeName("enum") /\ ~IsNull(def.values)
                /\ ~Includes(Get(def.values), Get(value))
         [] what = "must be a number" ->
                /\ ~IsNull(value)
                /\ def.type = TypeName("number") /\ ToNumber(Get(value)) = VNaN

FailedFlagChecks ==
    {c \in (1..Len(DeclaredFlags)) \X FlagChecks : FlagCheckFails(c[1], c[2])}
FailedArgChecks ==
    {c \in (1..Len(DeclaredArgs)) \X ArgChecks : ArgCheckFails(c[1], c[2])}
InvalidFlags == {c[1] : c \in FailedFlagChecks}

\* the entries of the result that validateFlag pushed
FlagEntries ==
    Cardinality({k \in 1..Len(Get(xValidation).errors) :
                    Get(xValidation).errors[k].message.on = "Flag"})

\* C15 as stated: whenever exactly two flags are invalid, the result holds
\* exactly two entries for them.
C15_TwoInvalidFlagsTwoEntries ==
    (~IsNull(xValidation) /\ Cardinality(InvalidFlags) = 2) => FlagEntries = 2

\* C15: validateCommand runs every check of every declared flag and
\* argument and returns one entry per failed check, no more and no fewer;
\* two invalid flags give at least two entries, and exactly two only when
\* each of them fails a single check.
C15_OneEntryPerFailedCheck ==
    ~IsNull(xValidation) =>
        LET errors == Get(xValidation).errors IN
        /\ \A c \in (1..Len(DeclaredFlags)) \X FlagChecks :
              HasError(errors, "Flag", DeclaredFlags[c[1]][1], c[2])
                  <=> FlagCheckFails(c[1], c[2])
        /\ \A c \in (1..Len(DeclaredArgs)) \X ArgChecks :
              HasError(errors, "Argument", DeclaredArgs[c[1]][1], c[2])
                  <=> ArgCheckFails(c[1], c[2])
        /\ Len(errors) = Cardinality(FailedFlagChecks) + Cardinality(FailedArgChecks)
        /\ Get(xValidation).valid <=> Len(errors) = 0
        /\ Cardinality(InvalidFlags) = 2 =>
              /\ FlagEntries >= 2
              /\ FlagEntries = 2 <=> Cardinality(FailedFlagChecks) = 2

\* Two invalid flags and an invalid argument: a required flag that is
\* missing, an array flag holding a number, a value outside the literal list.
C15_Witness ==
    /\ xpc = "thrown"
    /\ Cardinality(InvalidFlags) = 2
    /\ FlagEntries = 3
    /\ Cardinality(FailedArgChecks) = 1
    /\ Len(Get(xValidation).errors) = 4

\* optional: true in an argument's declaration as defineCommand is given it
DeclaredOptional(decl) == "optional" \in DOMAIN decl /\ decl.optional

\* C16: a declared positional argument that is missing gets the error
\* "is required" exactly when its declaration is not optional; a missing
\* argument declared { type, optional: true } gets no error.
C16_MissingOptionalArgIsNoError ==
    ~IsNull(xValidation) =>
        \A k \in 1..Len(xCommand.args) :
            k > Len(xArgs) =>
                (HasError(Get(xValidation).errors, "Argument", xCommand.args[k][1],
                          "is required")
                    <=> ~DeclaredOptional(xCommand.args[k][2]))

\* the declared arguments that have a positional value
GivenArgs == {k \in 1..Len(xCommand.args) : k <= Len(xArgs)}

\* the k-th positional value as the handler gets it
PositionalValue(k) ==
    IF xCommand.args[k][2] = [short |-> "number"]
    THEN ToNumber(xArgs[k]) ELSE VStr(xArgs[k])

C18_ApplyDefaultsCopies ==
    [][xpc = "start" =>
          /\ xFlags' = xFlags
          /\ \A x \in DOMAIN xFlags :
                MapHas(Get(xFinal'), x) /\ Get(xFinal')[x] = xFlags[x]
          /\ \A x \in DOMAIN Get(xFinal') \ DOMAIN xFlags :
                \E k \in 1..Len(DeclaredFlags) :
                    /\ DeclaredFlags[k][1] = x
                    /\ ~IsNull(DeclaredFlags[k][2].default)
                    /\ Get(xFinal')[x] = Get(DeclaredFlags[k][2].default)
          /\ \A k \in 1..Len(DeclaredFlags) :
                (~MapHas(xFlags, DeclaredFlags[k][1])
                    /\ ~IsNull(DeclaredFlags[k][2].default))
                  => MapHas(Get(xFinal'), DeclaredFlags[k][1])
      ]_vars

\* After the defaults: a declared default was added to the returned Map,
\* the caller's Map still lacks it, and a name the caller gave was kept.
C18_Witness ==
    /\ xpc = "defaulted"
    /\ \E k \in 1..Len(DeclaredFlags) :
          /\ ~MapHas(xFlags, DeclaredFlags[k][1])
          /\ MapHas(Get(xFinal), DeclaredFlags[k][1])
    /\ \E x \in DOMAIN xFlags : Get(xFinal)[x] = xFlags[x]
    /\ \E k \in 1..Len(DeclaredFlags) :
          IsNull(DeclaredFlags[k][2].default) /\ ~MapHas(Get(xFinal), DeclaredFlags[k][1])

\* C19: normalizing a normalized schema gives the normalized schema, for
\* the flags and for the arguments of every command.
C19_NormalizationIdempotent ==
    /\ NormalizeFlagsSchema(NormalizeFlagsSchema(xCommand.flags))
          = NormalizeFlagsSchema(xCommand.flags)
    /\ NormalizeArgsSchema(NormalizeArgsSchema(xCommand.args))
          = NormalizeArgsSchema(xCommand.args)

----------------------------------------------------------------------------
\* Properties of run() on flags that one letter stands for.

\* C20: the run of a command that declares the boolean flag verbose with
\* the alias v, given the command's name and -v, calls the command's
\* handler with verbose = true before it ends.
C20_ShortAliasReachesHandler ==
    (cliArgs = <<sDb, <<"-", "v">>>> /\ pc \in {"returned", "rejected", "exited"}) =>
        \E k \in 1..Len(log) :
            /\ log[k].cb = "handler" /\ log[k].ev = "call"
            /\ MapHas(log[k].with, sVerbose)
            /\ log[k].with[sVerbose] = VBool(TRUE)

----------------------------------------------------------------------------
\* Properties of the trie that buildRouter builds.

\* C21: in every node of the trie, every entry alias -> segment of the
\* alias table names a segment that is a key of that node's children.
C21_AliasesNameChildren ==
    \A node \in DOMAIN router :
        \A alias \in DOMAIN router[node].aliases :
            HasChild(router, node, router[node].aliases[alias])

----------------------------------------------------------------------------
\* Properties of parseGrammar on the token after a flag.

\* The value a step stored last for a flag: the last of its list for a flag
\* declared array, else what the map holds.
StoredLast(name, def) ==
    IF def.array
    THEN result'.flags[name].xs[Len(result'.flags[name].xs)]
    ELSE result'.flags[name]

\* C22: the step taken while a declared flag awaits its value stores the
\* token's raw string, coerced by the declared type (a token --x is stored
\* as "--x"), and clears the pending flag.
C22_PendingFlagTakesRawToken ==
    [][ StoresPendingValue =>
          LET name == Get(expectValue)
              def == Get(Lookup(ParseFlagDefs, name)) IN
          /\ MapHas(result'.flags, name)
          /\ StoredLast(name, def) = CoerceValue(tokens[i + 1].raw, def.type)
          /\ expectValue' = Null ]_vars

\* A flag declared without array: true.
DeclaredScalar(name) ==
    ~IsNull(Lookup(ParseFlagDefs, name)) /\ ~Get(Lookup(ParseFlagDefs, name)).array

\* the argument vector --reg=a --reg 7
RegTwice == << DASHDASH \o sReg \o <<"=", "a">>, DASHDASH \o sReg, <<"7">> >>

\* C23 as stated: the step that stores a second value for a flag not
\* declared array makes the list [first value, second value] of it.
C23_SecondOccurrencePromotes ==
    [][ ( /\ StoresPendingValue
          /\ DeclaredScalar(Get(expectValue))
          /\ MapHas(result.flags, Get(expectValue)) ) =>
            result'.flags[Get(expectValue)]
                = VArr(<< result.flags[Get(expectValue)],
                          CoerceValue(tokens[i + 1].value,
                                      Get(Lookup(ParseFlagDefs, Get(expectValue))).type) >>)
      ]_vars

\* C23 amended: the step that stores a second value for a flag not declared
\* array replaces the stored value by it, and no flag declared without
\* array ever holds a list; --reg=a --reg 7 gives reg = "7".
C23_SecondOccurrenceReplaces ==
    /\ [](\A n \in DOMAIN result.flags : DeclaredScalar(n) => ~IsArray(result.flags[n]))
    /\ []((ppc = "done" /\ argv = RegTwice) =>
              result.flags = [x \in {sReg} |-> VStr(<<"7">>)])
    /\ [][ ( /\ StoresPendingValue
             /\ DeclaredScalar(Get(expectValue))
             /\ MapHas(result.flags, Get(expectValue)) ) =>
               result'.flags[Get(expectValue)]
                   = CoerceValue(tokens[i + 1].value,
                                 Get(Lookup(ParseFlagDefs, Get(expectValue))).type)
         ]_vars

\* C23 witness: the flag reg was given twice with two values and the parse
\* is over.
C23_Witness ==
    /\ ppc = "done"
    /\ argv = RegTwice
    /\ MapHas(result.flags, sReg)
    /\ result.flags[sReg] # VStr(<<"a">>)

----------------------------------------------------------------------------
\* Properties of run() on the onExit hooks.

\* C24: when a run that called executeCommand is over, each hook set that
\* defines onExit had its onExit called exactly once, whatever threw.
C24_EachOnExitHookOnce ==
    (~IsNull(exec) /\ pc \in {"returned", "rejected", "exited"}) =>
        \A o \in Definers("onExit") :
            Cardinality({k \in 1..Len(log) : IsCall(k, "onExit", o)}) = 1

----------------------------------------------------------------------------
\* Properties of run() on the two parses of the argument vector.

\* C25: the segments the router left over from the first parse are the
\* commands of the second parse, so the positional list given to
\* executeCommand is the second parse's commands followed by its args.
C25_RemainingIsSecondParseCommands ==
    ~IsNull(commandParsed) =>
        /\ Get(route).remaining = Get(commandParsed).commands
        /\ Get(exec).args = Get(commandParsed).commands \o Get(commandParsed).args

\* C25 witness: a run whose router left a segment over and whose second
\* parse found an argument after the flags called the handler with both.
C25_Witness ==
    /\ pc = "returned"
    /\ ~IsNull(commandParsed)
    /\ Get(route).remaining = <<sA>>
    /\ Get(commandParsed).args = <<sX>>
    /\ MapHas(Get(commandParsed).flags, sN)
    /\ Get(exec).args = <<sA, sX>>
    /\ Called("handler")

----------------------------------------------------------------------------
\* Properties of findCommand on the paths of the declared commands.

\* C26: findCommand asked for the literal path of a declared command gives
\* that command's definition, the whole path as matchedPath and nothing
\* remaining.
C26_DeclaredCommandFoundByItsPath ==
    (qop = "findCommand" /\ Declared(router, query)) =>
        found = [command |-> router[query].command, matchedPath |-> query,
                 remaining |-> <<>>]

----------------------------------------------------------------------------
\* Properties of parseGrammar on declared boolean flags.

DeclaredBoolean(name) ==
    ~IsNull(Lookup(ParseFlagDefs, name)) /\ Get(Lookup(ParseFlagDefs, name)).type = "boolean"

\* The arguments that name a declared boolean flag and stand before any --.
BooleanFlagArgs ==
    {k \in 1..Len(argv) :
        /\ \A j \in 1..k : argv[j] # DASHDASH
        /\ StartsWith(argv[k], DASHDASH)
        /\ DeclaredBoolean(LongFlagTokens(argv[k])[1].value)}

----------------------------------------------------------------------------
\* Properties of run() on values that are no numbers.

\* The declared number flags that the second parse stored as NaN.
NaNFlags ==
    LET defs == NormalizeFlagsSchema(Get(Get(route).command).flags) IN
    {defs[k][1] : k \in {j \in 1..Len(defs) :
                            /\ defs[j][2].type = "number"
                            /\ MapHas(Get(commandParsed).flags, defs[j][1])
                            /\ Get(commandParsed).flags[defs[j][1]] = VNaN}}

\* The declared number arguments whose positional value is no number.
NaNArgs ==
    LET defs == NormalizeArgsSchema(Get(Get(route).command).args) IN
    {defs[k][1] : k \in {j \in 1..Len(defs) :
                            /\ defs[j][2].type = TypeName("number")
                            /\ j <= Len(Get(exec).args)
                            /\ ToNumber(Get(exec).args[j]) = VNaN}}

\* C28: a number flag given a value that is no number is stored as NaN by
\* the parse (at 7 --n x gives n = NaN), the validation has no error for
\* it, and the handler, when called, gets NaN for it; a number argument
\* whose value is no number gets the error "must be a number".
C28_NaNFlagPassesValidation ==
    /\ (~IsNull(commandParsed) /\ cliArgs \in {NaNFlagExample, NaNInlineExample}) =>
          sN \in NaNFlags
    /\ ~IsNull(exec) =>
          LET errors == Get(exec).head.validation.errors IN
          /\ \A n \in NaNFlags :
                \A k \in 1..Len(errors) :
                    ~(errors[k].message.on = "Flag" /\ errors[k].field = n)
          /\ \A n \in NaNArgs : HasError(errors, "Argument", n, "must be a number")
          /\ (NaNArgs = {} /\ cliArgs \in {NaNFlagExample, NaNInlineExample}) =>
                Get(exec).head.validation.valid
          /\ \A k \in 1..Len(log) :
                (log[k].cb = "handler" /\ log[k].ev = "call") =>
                    \A n \in NaNFlags : log[k].with[n] = VNaN
          /\ (pc = "returned" /\ Get(Get(route).command).run) => Called("handler")

\* C28 witness: at 7 --n x ran to its end and the handler was called with
\* n = NaN.
C28_Witness ==
    /\ pc = "returned"
    /\ cliArgs = NaNFlagExample
    /\ \E k \in 1..Len(log) :
          /\ log[k].cb = "handler" /\ log[k].ev = "call"
          /\ log[k].with[sN] = VNaN
          /\ log[k].with[sPort] = VNum(7)

----------------------------------------------------------------------------
\* The signal handling (hooks.ts lines 70-134) as steps of the event loop:
\* a signal calls every listener in turn, each `await` leaves a
\* continuation on the microtask queue, which is emptied in order before
\* the next event; a cleanup function that is async settles in a later
\* event.

\* Most calls of run(), each installing listeners and resetTerminal.
MaxInstalls == 2
\* Most entries of cleanupHandlers.
MaxCleanups == 3
\* Most signals and uncaught errors delivered.
MaxSignals == 2

Signals == {"SIGINT", "SIGTERM", "uncaughtException"}

\* hooks.ts lines 117, 125, 131
SignalExitCode(signal) ==
    IF signal = "SIGTERM" THEN 143 ELSE IF signal = "SIGINT" THEN 130 ELSE 1

\* The cleanup functions: resetTerminal and the user's, sync or async.
CleanupKinds == {"resetTerminal", "sync", "async"}

CleanupEntry == [st |-> "idle", calls |-> 0, by |-> Null]

\* The variables of run() other than the two the signal handling shares.
runRest == <<config, cliArgs, pc, hk, running, log, error, rejection, exitCode, out,
             parsed, route, commandParsed, exec>>

SignalInit ==
    /\ isShuttingDown = FALSE
    /\ cleanupState = <<>>
    /\ sigTasks = <<>>
    /\ signalsSent = 0
    /\ sigExit = Null

\* runCleanup's loop calls the handler at index k for the listener of
\* `signal`: a sync function has run when the call returns (it returned or
\* threw, the catch ignores which) and the `await` queues the loop's
\* continuation; an async one is awaited until it settles.  Past the last
\* handler runCleanup returns and the listener's `await` queues the exit.
CallCleanup(state, queue, k, signal, outcome) ==
    IF k > Len(cleanupHandlers)
    THEN [state |-> state, queue |-> Append(queue, [kind |-> "exit", signal |-> signal])]
    ELSE IF cleanupHandlers[k] = "async"
    THEN [state |-> [state EXCEPT ![k] = [st |-> "running", calls |-> @.calls + 1,
                                         by |-> Some(signal)]],
          queue |-> queue]
    ELSE [state |-> [state EXCEPT ![k] = [st |-> outcome, calls |-> @.calls + 1,
                                         by |-> Some(signal)]],
          queue |-> Append(queue, [kind |-> "loop", k |-> k, signal |-> signal])]

Outcomes(k) ==
    IF k <= Len(cleanupHandlers) /\ cleanupHandlers[k] = "sync"
    THEN {"done", "threw"} ELSE {"done"}

\* defineCLI.ts lines 45-46: run() installs the listeners once more and
\* registers resetTerminal.
SigRunStart ==
    /\ IsNull(sigExit) /\ sigTasks = <<>>
    /\ listeners < MaxInstalls
    /\ Len(cleanupHandlers) < MaxCleanups
    /\ listeners' = listeners + 1
    /\ cleanupHandlers' = Append(cleanupHandlers, "resetTerminal")
    /\ cleanupState' = Append(cleanupState, CleanupEntry)
    /\ UNCHANGED <<isShuttingDown, sigTasks, signalsSent, sigExit>>
    /\ UNCHANGED <<parseVars, routerVars, runRest, execVars, testVars>>

\* hooks.ts lines 85-91: onCleanup(fn)
SigOnCleanup ==
    /\ IsNull(sigExit) /\ sigTasks = <<>>
    /\ Len(cleanupHandlers) < MaxCleanups
    /\ \E fn \in {"sync", "async"} :
          cleanupHandlers' = Append(cleanupHandlers, fn)
    /\ cleanupState' = Append(cleanupState, CleanupEntry)
    /\ UNCHANGED <<listeners, isShuttingDown, sigTasks, signalsSent, sigExit>>
    /\ UNCHANGED <<parseVars, routerVars, runRest, execVars, testVars>>

\* The listeners of one event, called in the order they were installed
\* (hooks.ts lines 114-133): the first call of runCleanup sets
\* isShuttingDown and starts the loop, every other returns at line 97.
RECURSIVE ListenersFrom(_, _, _, _, _, _)
ListenersFrom(n, shutting, state, queue, signal, outcome) ==
    IF n = 0 THEN [state |-> state, queue |-> queue]
    ELSE IF shutting
    THEN ListenersFrom(n - 1, TRUE, state,
                       Append(queue, [kind |-> "exit", signal |-> signal]), signal,
                       outcome)
    ELSE LET r == CallCleanup(state, queue, 1, signal, outcome) IN
         ListenersFrom(n - 1, TRUE, r.state, r.queue, signal, outcome)

\* SIGINT, SIGTERM, an uncaught exception or an unhandled rejection.
SigDeliver ==
    /\ IsNull(sigExit) /\ sigTasks = <<>>
    /\ listeners > 0
    /\ signalsSent < MaxSignals
    /\ \E signal \in Signals, outcome \in Outcomes(1) :
          LET r == ListenersFrom(listeners, isShuttingDown, cleanupState, sigTasks,
                                 signal, outcome) IN
          /\ cleanupState' = r.state
          /\ sigTasks' = r.queue
    /\ isShuttingDown' = TRUE
    /\ signalsSent' = signalsSent + 1
    /\ UNCHANGED <<listeners, cleanupHandlers, sigExit>>
    /\ UNCHANGED <<parseVars, routerVars, runRest, execVars, testVars>>

\* The promise of an async cleanup function settles: the loop's
\* continuation is queued (hooks.ts lines 101-105).
CleanupSettle ==
    /\ IsNull(sigExit) /\ sigTasks = <<>>
    /\ \E k \in 1..Len(cleanupState), outcome \in {"done", "threw"} :
          /\ cleanupState[k].st = "running"
          /\ cleanupState' = [cleanupState EXCEPT ![k].st = outcome]
          /\ sigTasks' = <<[kind |-> "loop", k |-> k, signal |-> Get(cleanupState[k].by)]>>
    /\ UNCHANGED <<listeners, cleanupHandlers, isShuttingDown, signalsSent, sigExit>>
    /\ UNCHANGED <<parseVars, routerVars, runRest, execVars, testVars>>

\* The first continuation of the microtask queue runs: runCleanup's loop
\* goes on to the next handler (hooks.ts line 100).
SigLoopStep ==
    /\ IsNull(sigExit) /\ sigTasks # <<>>
    /\ Head(sigTasks).kind = "loop"
    /\ \E outcome \in Outcomes(Head(sigTasks).k + 1) :
          LET r == CallCleanup(cleanupState, Tail(sigTasks), Head(sigTasks).k + 1,
                               Head(sigTasks).signal, outcome) IN
          /\ cleanupState' = r.state
          /\ sigTasks' = r.queue
    /\ UNCHANGED <<listeners, cleanupHandlers, isShuttingDown, signalsSent, sigExit>>
    /\ UNCHANGED <<parseVars, routerVars, runRest, execVars, testVars>>

\* The first continuation of the microtask queue runs: a listener calls
\* process.exit (hooks.ts lines 117, 125, 131).
SigProcessExit ==
    /\ IsNull(sigExit) /\ sigTasks # <<>>
    /\ Head(sigTasks).kind = "exit"
    /\ sigExit' = Some(SignalExitCode(Head(sigTasks).signal))
    /\ sigTasks' = Tail(sigTasks)
    /\ UNCHANGED <<listeners, cleanupHandlers, isShuttingDown, cleanupState, signalsSent>>
    /\ UNCHANGED <<parseVars, routerVars, runRest, execVars, testVars>>

SignalNext ==
    SigRunStart \/ SigOnCleanup \/ SigDeliver \/ CleanupSettle \/ SigLoopStep
    \/ SigProcessExit

\* C29: process.exit is called by a listener only when every registered
\* cleanup handler has run to its end, returning or throwing, and no
\* cleanup handler is called twice.
C29_ExitAfterEveryCleanup ==
    /\ \A k \in 1..Len(cleanupState) : cleanupState[k].calls <= 1
    /\ ~IsNull(sigExit) =>
          \A k \in 1..Len(cleanupState) : cleanupState[k].st \in {"done", "threw"}

----------------------------------------------------------------------------
\* createTestRunner (test-utils run.ts lines 28-72): each run saves the
\* process functions it finds, installs its captures, awaits cli.run and
\* restores what it saved.  Runs started before others have ended overlap.

\* Most runs started through the runner.
MaxTestRuns == 2

ExitCodes == {0, 2}

\* The values of process.stdout.write, process.stderr.write, process.exit.
\* A function is the run whose capture it is (0: the function of the
\* process itself) and whether it is a bound copy rather than that function.
Original == [capture |-> 0, bound |-> FALSE]
Capture(r) == [capture |-> r, bound |-> FALSE]

\* f.bind(thisArg): a new function that calls f
Bind(f) == [capture |-> f.capture, bound |-> TRUE]

\* what a call of f runs
Target(f) == f.capture

NewTestRun ==
    [st |-> "new", savedStdout |-> Original, savedStderr |-> Original,
     savedExit |-> Original, stdout |-> 0, wrote |-> FALSE, exitCode |-> 0,
     thrown |-> Null, returns |-> Null]

TestInit ==
    /\ pStdoutWrite = Original /\ pStderrWrite = Original /\ pExit = Original
    /\ tRuns = [r \in 1..MaxTestRuns |-> NewTestRun]
    /\ terminated = FALSE

\* run.ts lines 32-56: the locals, the three saves, the three captures
\* installed, cli.run(args) called.
TestRunStart ==
    /\ ~terminated
    /\ \E r \in 1..MaxTestRuns :
          /\ tRuns[r].st = "new"
          /\ \A q \in 1..(r - 1) : tRuns[q].st # "new"
          /\ tRuns' = [tRuns EXCEPT ![r].st = "running",
                                    ![r].savedStdout = Bind(pStdoutWrite),
                                    ![r].savedStderr = Bind(pStderrWrite),
                                    ![r].savedExit = pExit]
          /\ pStdoutWrite' = Capture(r)
          /\ pStderrWrite' = Capture(r)
          /\ pExit' = Capture(r)
    /\ UNCHANGED terminated
    /\ UNCHANGED <<parseVars, routerVars, runVars, execVars, sigVars>>

\* The CLI of a run writes to process.stdout: the installed function adds
\* the chunk to its run's stdout (run.ts lines 40-43).
TestCliWrite ==
    /\ ~terminated
    /\ \E r \in 1..MaxTestRuns :
          /\ tRuns[r].st = "running" /\ IsNull(tRuns[r].thrown) /\ ~tRuns[r].wrote
          /\ tRuns' = IF Target(pStdoutWrite) = 0
                      THEN [tRuns EXCEPT ![r].wrote = TRUE]
                      ELSE [[tRuns EXCEPT ![r].wrote = TRUE]
                               EXCEPT ![Target(pStdoutWrite)].stdout = @ + 1]
    /\ UNCHANGED <<pStdoutWrite, pStderrWrite, pExit, terminated>>
    /\ UNCHANGED <<parseVars, routerVars, runVars, execVars, sigVars>>

\* The CLI of a run calls process.exit(code): the installed capture sets
\* its run's exitCode and throws ExitError into the calling run (run.ts
\* lines 50-53); the original function ends the process.
TestCliExit ==
    /\ ~terminated
    /\ \E r \in 1..MaxTestRuns, code \in ExitCodes :
          /\ tRuns[r].st = "running" /\ IsNull(tRuns[r].thrown)
          /\ IF Target(pExit) = 0
             THEN terminated' = TRUE /\ tRuns' = tRuns
             ELSE /\ terminated' = terminated
                  /\ tRuns' = [[tRuns EXCEPT ![Target(pExit)].exitCode = code]
                                  EXCEPT ![r].thrown = Some([exit |-> TRUE, code |-> code])]
    /\ UNCHANGED <<pStdoutWrite, pStderrWrite, pExit>>
    /\ UNCHANGED <<parseVars, routerVars, runVars, execVars, sigVars>>

\* cli.run rejects with an Error of the CLI.
TestCliThrow ==
    /\ ~terminated
    /\ \E r \in 1..MaxTestRuns :
          /\ tRuns[r].st = "running" /\ IsNull(tRuns[r].thrown)
          /\ tRuns' = [tRuns EXCEPT ![r].thrown = Some([exit |-> FALSE, code |-> 1])]
    /\ UNCHANGED <<pStdoutWrite, pStderrWrite, pExit, terminated>>
    /\ UNCHANGED <<parseVars, routerVars, runVars, execVars, sigVars>>

\* run.ts lines 57-70: the catch sets exitCode from what was thrown, the
\* finally block restores the three saved functions, the result is returned.
TestRunEnd ==
    /\ ~terminated
    /\ \E r \in 1..MaxTestRuns :
          /\ tRuns[r].st = "running"
          /\ LET code == IF IsNull(tRuns[r].thrown) THEN tRuns[r].exitCode
                         ELSE Get(tRuns[r].thrown).code IN
             tRuns' = [tRuns EXCEPT ![r].st = "done", ![r].exitCode = code,
                                    ![r].returns = Some([exitCode |-> code,
                                                         stdout |-> tRuns[r].stdout])]
          /\ pStdoutWrite' = tRuns[r].savedStdout
          /\ pStderrWrite' = tRuns[r].savedStderr
          /\ pExit' = tRuns[r].savedExit
    /\ UNCHANGED terminated
    /\ UNCHANGED <<parseVars, routerVars, runVars, execVars, sigVars>>

TestNext == TestRunStart \/ TestCliWrite \/ TestCliExit \/ TestCliThrow \/ TestRunEnd

\* C30: when every run that was started has ended, process.stdout.write and
\* process.stderr.write call the original functions and process.exit is the
\* original function; the process is never ended by the CLI
\* of a run; a run whose CLI called process.exit(code) returns that code.
C30_TestRunnerRestoresProcess ==
    /\ ~terminated
    /\ ( /\ \A r \in 1..MaxTestRuns : tRuns[r].st # "running"
         /\ \E r \in 1..MaxTestRuns : tRuns[r].st = "done" ) =>
          /\ Target(pStdoutWrite) = 0
          /\ Target(pStderrWrite) = 0
          /\ pExit = Original
    /\ \A r \in 1..MaxTestRuns :
          (tRuns[r].st = "done" /\ ~IsNull(tRuns[r].thrown) /\ Get(tRuns[r].thrown).exit) =>
              Get(tRuns[r].returns).exitCode = Get(tRuns[r].thrown).code

----------------------------------------------------------------------------
\* The specifications.  Each one runs one part of the program and leaves
\* the variables of the others at rest.

ParseIdle ==
    /\ argv = <<>> /\ pos = 0 /\ passthrough = FALSE /\ tokens = <<>> /\ i = 0
    /\ commandPhase = TRUE /\ expectValue = Null
    /\ result = [commands |-> <<>>, flags |-> EmptyMap, args |-> <<>>]
    /\ ppc = "done"

RunIdle ==
    /\ config = [hooks |-> Null, plugins |-> <<>>]
    /\ cliArgs = <<>>
    /\ pc = "returned" /\ hk = 0 /\ running = {} /\ log = <<>>
    /\ RunIdleOutputs
    /\ listeners = 0 /\ cleanupHandlers = <<>>

\* defineCLI(config) builds the router once; run(argv) does the rest.
Init ==
    /\ RunInit
    /\ router = BuildRouter(RunSchema)
    /\ inserts = 0 /\ query = <<>> /\ qop = "none" /\ foundNode = Null
    /\ found = [command |-> Null, matchedPath |-> <<>>, remaining |-> <<>>]
    /\ ParseIdle
    /\ ExecIdle
    /\ SignalInit
    /\ TestInit

Next == RunNext

Spec == Init /\ [][Next]_vars

InitParse ==
    ParseInit /\ RouterInit /\ RunIdle /\ ExecIdle /\ SignalInit /\ TestInit

SpecParse == InitParse /\ [][ParseNext]_vars

InitRouter ==
    RouterInit /\ ParseIdle /\ RunIdle /\ ExecIdle /\ SignalInit /\ TestInit

SpecRouter == InitRouter /\ [][RouterNext]_vars

InitExec ==
    ExecInit /\ RouterInit /\ ParseIdle /\ RunIdle /\ SignalInit /\ TestInit

SpecExec == InitExec /\ [][ExecNext]_vars

InitSignal ==
    SignalInit /\ RouterInit /\ ParseIdle /\ RunIdle /\ ExecIdle /\ TestInit

SpecSignal == InitSignal /\ [][SignalNext]_vars

InitTest ==
    TestInit /\ RouterInit /\ ParseIdle /\ RunIdle /\ ExecIdle /\ SignalInit

SpecTest == InitTest /\ [][TestNext]_vars

====
